---- MODULE Spec2Model ----
(***************************************************************************)
(* A model of backend/libvirt_manager.py (class LibvirtManager) as it is   *)
(* driven by the request handlers of backend/app.py: one shared manager,   *)
(* one thread per request (SocketIO async_mode="threading").               *)
(*                                                                         *)
(* The hypervisor (libvirt) is the environment: domains that are active or *)
(* inactive, their cumulative CPU time, their snapshots, and calls that    *)
(* may fail with libvirt.libvirtError at any point.                        *)
(***************************************************************************)
EXTENDS Integers, Sequences, FiniteSets, TLC

\* ------------------------------------------------------------------ bounds
\* Concurrent request-handler threads sharing the one LibvirtManager.
NumProcs == 2
\* Calls started in one run.
MaxCalls == 2
\* Largest counter reading, timestamp and vCPU count given to the CPU
\* percent formula when it is checked on its own.
MaxReading == 3
\* The wall clock is cut off here (time.time() reads are disabled beyond it).
MaxSnaps == 3
\* Packed version integers are tried from 0 up to this one.
MaxVersion == 1100
MaxClock == 8
\* CPU-time counter units per second: the model's resolution of the
\* nanosecond counter (the 1e9 of the code's formula, scaled down).
NsPerSec == 1

\* ------------------------------------------------------- program constants
\* `(now - prev["timestamp"]) < 5`: the freshness window of a cache entry.
FreshSeconds == 5
\* `time.sleep(1)`: the sampling window of a cold sample.
SleepSeconds == 1

Procs == 1..NumProcs
\* Domains defined on the hypervisor, and one name it does not know.
VMs == {"vm1", "vm2"}
Ghost == "ghost"
Names == VMs \cup {Ghost}
\* vCPU count the live counter (dom.info()[3]) reports for each domain.
LiveVcpus == [v \in VMs |-> IF v = "vm1" THEN 1 ELSE 2]

\* Snapshot names the callers use.
SnapNames == {"s1"}
\* The persistent configuration a domain is defined with (memory in KiB).
DefaultConfig(v) == [maxmem |-> 1024, mem |-> 1024, vcpus |-> LiveVcpus[v]]
\* No configuration: that of a domain that does not exist.
NoConfig == [maxmem |-> 0, mem |-> 0, vcpus |-> 0]
\* The (vcpus, memory_mb) pairs the callers of update_resources pass.
ResizeArgs == {<<2, 2>>, <<4, 2048>>}

\* The devices of a domain's XML description, in document order.
DiskTargets == <<"vda", "vdb">>
NetworkInterfaces == <<"vnet0", "vnet1">>

\* All the devices of a domain.
Devices ==
    {DiskTargets[i] : i \in 1..Len(DiskTargets)}
       \cup {NetworkInterfaces[i] : i \in 1..Len(NetworkInterfaces)}

\* VM_STATE_MAP: the label of each state code libvirt names.
VM_STATE_MAP ==
    [code \in {"VIR_DOMAIN_NOSTATE", "VIR_DOMAIN_RUNNING",
               "VIR_DOMAIN_BLOCKED", "VIR_DOMAIN_PAUSED",
               "VIR_DOMAIN_SHUTDOWN", "VIR_DOMAIN_SHUTOFF",
               "VIR_DOMAIN_CRASHED", "VIR_DOMAIN_PMSUSPENDED"} |->
        CASE code = "VIR_DOMAIN_NOSTATE" -> "no_state"
          [] code = "VIR_DOMAIN_RUNNING" -> "running"
          [] code = "VIR_DOMAIN_BLOCKED" -> "blocked"
          [] code = "VIR_DOMAIN_PAUSED" -> "paused"
          [] code = "VIR_DOMAIN_SHUTDOWN" -> "shutdown"
          [] code = "VIR_DOMAIN_SHUTOFF" -> "stopped"
          [] code = "VIR_DOMAIN_CRASHED" -> "crashed"
          [] code = "VIR_DOMAIN_PMSUSPENDED" -> "suspended"]

\* The state codes dom.info() may report: the ones libvirt names and some
\* it does not.
StateCodes == DOMAIN VM_STATE_MAP \cup {"8", "-1"}

\* A projection that takes every code it does not know for no state.
StateLabelNoState(state_id) ==
    IF state_id \in DOMAIN VM_STATE_MAP THEN VM_STATE_MAP[state_id]
    ELSE "no_state"

\* VM_STATE_MAP.get(state_id, "unknown").
StateLabel(state_id) ==
    IF state_id \in DOMAIN VM_STATE_MAP THEN VM_STATE_MAP[state_id]
    ELSE "unknown"

\* The state code dom.info() reports for a domain that runs, or is off.
DomState(active) ==
    IF active THEN "VIR_DOMAIN_RUNNING" ELSE "VIR_DOMAIN_SHUTOFF"

\* The sets of devices whose statistics the hypervisor may fail to give
\* during one vm_metrics call: none or all of them, or any of them.
AllOrNone == {{}, Devices}
AnyDevices == SUBSET Devices

\* How long it can be from one event to the next, in seconds: a moment, just
\* inside the freshness window, and just outside it.
Gaps == {1, FreshSeconds - 1, FreshSeconds}

\* The exception classes of libvirt_manager.py, plus the raw hypervisor error.
NoError == "none"
LibvirtError == "LibvirtError"
VMNotFoundError == "VMNotFoundError"
LibvirtConnectionError == "LibvirtConnectionError"
RawLibvirtError == "libvirt.libvirtError"

\* A hypervisor on which no domain has a snapshot. A domain's snapshots are
\* kept in the order snapshotListNames() gives them, each with the
\* creationTime of its XML description (NoTime when the element is missing)
\* and the domain state it holds.
NoSnapshots == [v \in VMs |-> <<>>]
NoTime == -1

\* No sample pair is being tried on the formula.
NoProbe == [cpu_time_0 |-> 0, timestamp_0 |-> 0, cpu_time_1 |-> 0,
            timestamp_1 |-> 0, vcpus |-> 0, percent |-> -1]

\* self._cpu_cache.get(name) when there is no entry.
NoEntry == [cpu_time |-> -1, timestamp |-> -1]

VARIABLES
    domActive,     \* hypervisor: domain -> is it running
    shutdownReq,   \* hypervisor: domain -> a graceful shutdown was requested
    cpuTime,       \* hypervisor: domain -> cumulative CPU time (dom.info()[4])
    clock,         \* the wall clock, in seconds (time.time())
    cpu_cache,     \* LibvirtManager._cpu_cache: name -> entry or NoEntry
    openHandles,   \* connection handles open on the hypervisor
    calls,         \* thread -> the call it is executing (its frame)
    started,       \* calls started so far
    snapshots,     \* hypervisor: domain -> snapshot name -> what it holds
    config,        \* hypervisor: domain -> its persistent configuration
    lastCall,      \* the call that returned last
    pace,          \* environment: the gaps, loads and device faults allowed
    probe,         \* the readings a formula is tried on, and its result
    lastSample     \* name -> where the last measurement of that domain ended

vars == <<domActive, shutdownReq, cpuTime, clock, cpu_cache, openHandles,
          calls, started, snapshots, config, lastCall, pace, probe, lastSample>>

hyper == <<domActive, shutdownReq, cpuTime>>

\* vm_metrics has not built its sample (yet).
NoSample == [state |-> "", cpu_percent |-> -1, memory_percent |-> -1,
             memory_used_mb |-> -1, memory_total_mb |-> -1,
             disk_io |-> <<>>, network_io |-> <<>>]

\* The sample vm_metrics returns for a domain that is not active.
StoppedSample == [state |-> "stopped", cpu_percent |-> 0,
                  memory_percent |-> 0, memory_used_mb |-> 0,
                  memory_total_mb |-> 0, disk_io |-> <<>>,
                  network_io |-> <<>>]

\* global_stats has not counted anything (yet).
NoStats == [vms_total |-> -1, vms_active |-> -1, vms_inactive |-> -1,
            state_distribution |-> <<>>]

\* ------------------------------------------------------------ call frames
IdleCall ==
    [op |-> "none", fn |-> "none", name |-> Ghost, force |-> FALSE,
     pc |-> "idle", held |-> 0, opens |-> 0, failedOpens |-> 0,
     lookups |-> 0, muts |-> <<>>, status |-> "", err |-> NoError,
     sawActive |-> FALSE, entryActive |-> FALSE,
     now |-> -1, prev |-> NoEntry, cpu_time_0 |-> -1, timestamp_0 |-> -1,
     cpu_time_1 |-> -1, timestamp_1 |-> -1, slept |-> FALSE,
     stored |-> FALSE, zeroDt |-> FALSE, cpu_percent |-> -1,
     snap |-> "", flags |-> "", todo |-> <<>>, vms |-> <<>>,
     vcpus |-> 0, memory_mb |-> 0, restart_needed |-> FALSE, issued |-> <<>>,
     snaps |-> <<>>, skipped |-> 0, stats |-> NoStats,
     reads |-> 0, sample |-> NoSample, enumerated |-> <<>>,
     omitted |-> <<>>, unread |-> {}, parsed |-> <<>>, issuedOn |-> <<>>,
     entryConfig |-> NoConfig]

NoCall == [op |-> "none", name |-> Ghost, force |-> FALSE, status |-> "",
           err |-> NoError]

Exists(name) == name \in VMs

\* A hypervisor call whose precondition `pre` does not hold fails; one whose
\* precondition holds may still fail (libvirtError).
Outcomes(pre) == IF pre THEN {TRUE, FALSE} ELSE {FALSE}

SetCall(p, c) == calls' = [calls EXCEPT ![p] = c]

\* `raise kind` inside the try block: control goes to the finally clause.
Raise(c, kind) == [c EXCEPT !.err = kind, !.pc = "finally"]

\* A return placed outside the try block: the finally clause does not run.
ReturnWithoutClose(c, s) == [c EXCEPT !.status = s, !.pc = "done"]

\* `return {"status": ...}` inside the try block.
ReturnStatus(c, s) == [c EXCEPT !.status = s, !.pc = "finally"]

\* `except libvirt.libvirtError as e: raise LibvirtError(...)`.
Wrapped(c) == Raise(c, LibvirtError)

\* The call issued hypervisor mutation m (whether or not it succeeded), on
\* a domain that was running, or was not, at that moment.
Issue(c, m) ==
    [c EXCEPT !.muts = Append(@, m),
              !.issuedOn = Append(@, Exists(c.name) /\ domActive[c.name])]

\* ------------------------------------------------------------------- Init
\* The manager as constructed (an empty cache), over a hypervisor whose
\* domains run as one of `running` says, in an environment of pace `pc`.
InitWith(running, pc, probes, listings) ==
    /\ domActive \in running
    /\ shutdownReq = [v \in VMs |-> FALSE]
    /\ cpuTime = [v \in VMs |-> 0]
    /\ clock = 0
    /\ cpu_cache = [n \in Names |-> NoEntry]
    /\ openHandles = 0
    /\ calls = [p \in Procs |-> IdleCall]
    /\ started = 0
    /\ snapshots \in listings
    /\ config = [v \in VMs |-> DefaultConfig(v)]
    /\ lastCall = NoCall
    /\ pace = pc
    /\ probe \in probes
    /\ lastSample = [n \in Names |-> NoEntry]

\* Any domain may be running; time passes a second at a time under full load.
Init ==
    InitWith([VMs -> BOOLEAN], [gaps |-> {1}, loads |-> {NsPerSec},
              faults |-> AllOrNone],
             {NoProbe}, {NoSnapshots})

\* For the sampler: vm2 stays off, and time passes by any gap under any load.
SamplerInit ==
    InitWith({a \in [VMs -> BOOLEAN] : ~a["vm2"]},
             [gaps |-> Gaps, loads |-> 0..NsPerSec, faults |-> AllOrNone],
             {NoProbe},
             {NoSnapshots})

\* For the device statistics: as for the sampler, and any device may fail.
DeviceInit ==
    InitWith({a \in [VMs -> BOOLEAN] : ~a["vm2"]},
             [gaps |-> Gaps, loads |-> 0..NsPerSec, faults |-> AnyDevices],
             {NoProbe}, {NoSnapshots})

\* --------------------------------------------------------------- requests
NamedOps == {"vm_details", "start_vm", "stop_vm", "restart_vm", "vm_metrics",
             "list_snapshots", "create_snapshot", "revert_snapshot",
             "delete_snapshot", "update_resources"}
FleetOps == {"list_vms", "global_stats"}
Ops == NamedOps \cup FleetOps

\* The frame of a fresh call of `op`, about to run `conn = self._connect()`.
NewCall(op, name, force, snap) ==
    [IdleCall EXCEPT !.op = op, !.fn = op, !.name = name, !.force = force,
                     !.snap = snap, !.pc = "connect",
                     !.entryActive = (Exists(name) /\ domActive[name]),
                     !.entryConfig = IF Exists(name) THEN config[name]
                                     ELSE NoConfig]

\* The calls a request handler of app.py can make.
Requests ==
    {NewCall(op, n, FALSE, "") :
        op \in {"vm_details", "start_vm", "vm_metrics", "list_snapshots"},
        n \in Names}
    \cup {[NewCall("update_resources", n, FALSE, "")
             EXCEPT !.vcpus = a[1], !.memory_mb = a[2]] :
        n \in Names, a \in ResizeArgs}
    \cup {NewCall(op, n, f, "") :
        op \in {"stop_vm", "restart_vm"}, n \in Names, f \in BOOLEAN}
    \cup {NewCall(op, n, FALSE, s) :
        op \in {"create_snapshot", "revert_snapshot", "delete_snapshot"},
        n \in Names, s \in SnapNames}
    \cup {NewCall(op, Ghost, FALSE, "") : op \in FleetOps}

\* A request handler thread calls a public operation of the shared manager,
\* with one of the requests reqs.
Call(p, reqs) ==
    /\ calls[p].pc = "idle"
    /\ \E c \in reqs : SetCall(p, c)
    /\ UNCHANGED <<hyper, clock, cpu_cache, openHandles, snapshots, config,
                   lastCall, pace, probe, lastSample>>

Begin(p) ==
    /\ started < MaxCalls
    /\ started' = started + 1
    /\ Call(p, Requests)

\* Where a function goes once it holds its connection.
AfterConnect(fn) ==
    CASE fn \in NamedOps -> "lookup"
      [] fn = "list_vms" -> "lv_ids"
      [] fn = "global_stats" -> "gs_host"

\* list_vms running inside global_stats (`all_vms = self.list_vms()`).
Nested(c) == c.op = "global_stats" /\ c.fn = "list_vms"

\* _connect: libvirt.open(uri) returns a handle, returns None, or raises
\* libvirtError; both failures become LibvirtConnectionError. The call sits
\* outside the operation's try block, so nothing is closed for it; inside
\* global_stats the error of the nested list_vms reaches the outer finally.
ConnectResult(c, r) ==
    IF r = "handle"
    THEN [c EXCEPT !.opens = @ + 1, !.held = @ + 1, !.pc = AfterConnect(c.fn)]
    ELSE [c EXCEPT !.opens = @ + 1, !.failedOpens = @ + 1,
                   !.err = LibvirtConnectionError,
                   !.fn = c.op,
                   !.pc = IF Nested(c) THEN "finally" ELSE "done"]

Connect(p) ==
    /\ calls[p].pc = "connect"
    /\ \E r \in {"handle", "None", "libvirtError"} :
          /\ SetCall(p, ConnectResult(calls[p], r))
          /\ openHandles' = IF r = "handle" THEN openHandles + 1
                            ELSE openHandles
    /\ UNCHANGED <<hyper, clock, cpu_cache, started, snapshots, config,
                   lastCall, pace, probe, lastSample>>

\* Where an operation goes once _get_domain returned the domain.
AfterLookup(op) ==
    CASE op \in {"start_vm", "stop_vm", "restart_vm", "vm_metrics",
                 "update_resources"} -> "isActive"
      [] op = "vm_details" -> "vd_info"
      [] op = "list_snapshots" -> "ls_names"
      [] op = "create_snapshot" -> "cs_create"
      [] op \in {"revert_snapshot", "delete_snapshot"} -> "snap_lookup"

\* A _get_domain that lets the failed lookup pass for a generic failure.
GetDomainGeneric(c, ok) ==
    IF ok
    THEN [c EXCEPT !.lookups = @ + 1, !.pc = AfterLookup(c.op)]
    ELSE Raise([c EXCEPT !.lookups = @ + 1], LibvirtError)

\* _get_domain: conn.lookupByName(name); any libvirtError becomes
\* VMNotFoundError, which no `except libvirt.libvirtError` clause catches.
GetDomainResult(c, ok) ==
    IF ok
    THEN [c EXCEPT !.lookups = @ + 1, !.pc = AfterLookup(c.op)]
    ELSE Raise([c EXCEPT !.lookups = @ + 1], VMNotFoundError)

GetDomain(p) ==
    /\ calls[p].pc = "lookup"
    /\ \E ok \in Outcomes(Exists(calls[p].name)) :
          SetCall(p, GetDomainResult(calls[p], ok))
    /\ UNCHANGED <<hyper, clock, cpu_cache, openHandles, started, snapshots,
                   config, lastCall, pace, probe, lastSample>>

\* ------------------------------------------------- hypervisor: life cycle
\* dom.create() / dom.destroy() took effect on domain v.
Booted(v) ==
    /\ domActive' = [domActive EXCEPT ![v] = TRUE]
    /\ shutdownReq' = [shutdownReq EXCEPT ![v] = FALSE]
    /\ cpuTime' = [cpuTime EXCEPT ![v] = 0]

PoweredOff(v) ==
    /\ domActive' = [domActive EXCEPT ![v] = FALSE]
    /\ shutdownReq' = [shutdownReq EXCEPT ![v] = FALSE]
    /\ cpuTime' = [cpuTime EXCEPT ![v] = 0]

\* The guest acts on a graceful shutdown request some time after the
\* request was accepted.
GuestPowerOff(v) ==
    /\ domActive[v]
    /\ shutdownReq[v]
    /\ PoweredOff(v)
    /\ UNCHANGED <<clock, cpu_cache, openHandles, calls, started, snapshots,
                   config, lastCall, pace, probe, lastSample>>

\* ------------------------------------------------------------- start_vm
StartCheckResult(c, ok, active) ==
    IF ~ok THEN Wrapped(c)
    ELSE IF active
         THEN ReturnStatus([c EXCEPT !.sawActive = TRUE], "already_running")
         ELSE [c EXCEPT !.sawActive = FALSE, !.pc = "create"]

\* `if dom.isActive(): return already_running`
StartCheck(p) ==
    /\ calls[p].op = "start_vm"
    /\ calls[p].pc = "isActive"
    /\ \E ok \in BOOLEAN :
          SetCall(p, StartCheckResult(calls[p], ok, domActive[calls[p].name]))
    /\ UNCHANGED <<hyper, clock, cpu_cache, openHandles, started, snapshots,
                   config, lastCall, pace, probe, lastSample>>

\* `dom.create()` then `return started`
StartCreate(p) ==
    /\ calls[p].op = "start_vm"
    /\ calls[p].pc = "create"
    /\ LET c == Issue(calls[p], "create") IN
       \E ok \in Outcomes(~domActive[c.name]) :
          IF ok THEN /\ Booted(c.name)
                     /\ SetCall(p, ReturnStatus(c, "started"))
                ELSE /\ UNCHANGED hyper
                     /\ SetCall(p, Wrapped(c))
    /\ UNCHANGED <<clock, cpu_cache, openHandles, started, snapshots, config,
                   lastCall, pace, probe, lastSample>>

\* A stop_vm that destroys whatever force is.
StopCheckDestroys(c, ok, active) ==
    IF ~ok THEN Wrapped(c)
    ELSE IF ~active
         THEN ReturnStatus([c EXCEPT !.sawActive = FALSE], "already_stopped")
         ELSE [c EXCEPT !.sawActive = TRUE, !.pc = "destroy"]

\* A stop_vm without the `if not dom.isActive()` early return.
StopCheckSkipped(c, ok, active) ==
    IF ~ok THEN Wrapped(c)
    ELSE [c EXCEPT !.sawActive = active,
                   !.pc = IF c.force THEN "destroy" ELSE "shutdown"]

\* -------------------------------------------------------------- stop_vm
StopCheckResult(c, ok, active) ==
    IF ~ok THEN Wrapped(c)
    ELSE IF ~active
         THEN ReturnStatus([c EXCEPT !.sawActive = FALSE], "already_stopped")
         ELSE [c EXCEPT !.sawActive = TRUE,
                        !.pc = IF c.force THEN "destroy" ELSE "shutdown"]

\* `if not dom.isActive(): return already_stopped`
StopCheck(p) ==
    /\ calls[p].op = "stop_vm"
    /\ calls[p].pc = "isActive"
    /\ \E ok \in BOOLEAN :
          SetCall(p, StopCheckResult(calls[p], ok, domActive[calls[p].name]))
    /\ UNCHANGED <<hyper, clock, cpu_cache, openHandles, started, snapshots,
                   config, lastCall, pace, probe, lastSample>>

\* `dom.destroy()` (force) then `return stopped`
StopDestroy(p) ==
    /\ calls[p].op = "stop_vm"
    /\ calls[p].pc = "destroy"
    /\ LET c == Issue(calls[p], "destroy") IN
       \E ok \in Outcomes(domActive[c.name]) :
          IF ok THEN /\ PoweredOff(c.name)
                     /\ SetCall(p, ReturnStatus(c, "stopped"))
                ELSE /\ UNCHANGED hyper
                     /\ SetCall(p, Wrapped(c))
    /\ UNCHANGED <<clock, cpu_cache, openHandles, started, snapshots, config,
                   lastCall, pace, probe, lastSample>>

\* `dom.shutdown()` (graceful: the request is only accepted) then
\* `return stopped`
StopShutdown(p) ==
    /\ calls[p].op = "stop_vm"
    /\ calls[p].pc = "shutdown"
    /\ LET c == Issue(calls[p], "shutdown") IN
       \E ok \in Outcomes(domActive[c.name]) :
          IF ok THEN /\ shutdownReq' = [shutdownReq EXCEPT ![c.name] = TRUE]
                     /\ UNCHANGED <<domActive, cpuTime>>
                     /\ SetCall(p, ReturnStatus(c, "stopped"))
                ELSE /\ UNCHANGED hyper
                     /\ SetCall(p, Wrapped(c))
    /\ UNCHANGED <<clock, cpu_cache, openHandles, started, snapshots, config,
                   lastCall, pace, probe, lastSample>>

\* ----------------------------------------------------------- restart_vm
\* A restart_vm that reboots whatever force is.
RestartCheckReboots(c, ok, active) ==
    IF ~ok THEN Wrapped(c)
    ELSE [c EXCEPT !.sawActive = active,
                   !.pc = IF active THEN "reboot" ELSE "create"]

\* A restart_vm without the `else: dom.create()` branch.
RestartCheckNoStart(c, ok, active) ==
    IF ~ok THEN Wrapped(c)
    ELSE [c EXCEPT !.sawActive = active,
                   !.pc = IF c.force THEN "reset" ELSE "reboot"]

RestartCheckResult(c, ok, active) ==
    IF ~ok THEN Wrapped(c)
    ELSE [c EXCEPT !.sawActive = active,
                   !.pc = IF active
                          THEN (IF c.force THEN "reset" ELSE "reboot")
                          ELSE "create"]

\* `if dom.isActive(): ... else: dom.create()`
RestartCheck(p) ==
    /\ calls[p].op = "restart_vm"
    /\ calls[p].pc = "isActive"
    /\ \E ok \in BOOLEAN :
          SetCall(p, RestartCheckResult(calls[p], ok,
                                        domActive[calls[p].name]))
    /\ UNCHANGED <<hyper, clock, cpu_cache, openHandles, started, snapshots,
                   config, lastCall, pace, probe, lastSample>>

\* `dom.reset(0)`: on success `return reset`; a libvirtError is caught by the
\* inner except clause, which falls back on destroy + create.
RestartReset(p) ==
    /\ calls[p].op = "restart_vm"
    /\ calls[p].pc = "reset"
    /\ LET c == Issue(calls[p], "reset") IN
       \E ok \in Outcomes(domActive[c.name]) :
          SetCall(p, IF ok THEN ReturnStatus(c, "reset")
                     ELSE [c EXCEPT !.pc = "fb_destroy"])
    /\ UNCHANGED <<hyper, clock, cpu_cache, openHandles, started, snapshots,
                   config, lastCall, pace, probe, lastSample>>

\* The fallback's `dom.destroy()`.
RestartFallbackDestroy(p) ==
    /\ calls[p].op = "restart_vm"
    /\ calls[p].pc = "fb_destroy"
    /\ LET c == Issue(calls[p], "destroy") IN
       \E ok \in Outcomes(domActive[c.name]) :
          IF ok THEN /\ PoweredOff(c.name)
                     /\ SetCall(p, [c EXCEPT !.pc = "fb_create"])
                ELSE /\ UNCHANGED hyper
                     /\ SetCall(p, Wrapped(c))
    /\ UNCHANGED <<clock, cpu_cache, openHandles, started, snapshots, config,
                   lastCall, pace, probe, lastSample>>

\* The fallback's `dom.create()` then `return restarted_hard`.
RestartFallbackCreate(p) ==
    /\ calls[p].op = "restart_vm"
    /\ calls[p].pc = "fb_create"
    /\ LET c == Issue(calls[p], "create") IN
       \E ok \in Outcomes(~domActive[c.name]) :
          IF ok THEN /\ Booted(c.name)
                     /\ SetCall(p, ReturnStatus(c, "restarted_hard"))
                ELSE /\ UNCHANGED hyper
                     /\ SetCall(p, Wrapped(c))
    /\ UNCHANGED <<clock, cpu_cache, openHandles, started, snapshots, config,
                   lastCall, pace, probe, lastSample>>

\* `dom.reboot(0)` then `return restarted`: the guest reboots, the domain
\* stays active.
RestartReboot(p) ==
    /\ calls[p].op = "restart_vm"
    /\ calls[p].pc = "reboot"
    /\ LET c == Issue(calls[p], "reboot") IN
       \E ok \in Outcomes(domActive[c.name]) :
          SetCall(p, IF ok THEN ReturnStatus(c, "restarted") ELSE Wrapped(c))
    /\ UNCHANGED <<hyper, clock, cpu_cache, openHandles, started, snapshots,
                   config, lastCall, pace, probe, lastSample>>

\* The inactive branch: `dom.create()` then `return started`.
RestartCreate(p) ==
    /\ calls[p].op = "restart_vm"
    /\ calls[p].pc = "create"
    /\ LET c == Issue(calls[p], "create") IN
       \E ok \in Outcomes(~domActive[c.name]) :
          IF ok THEN /\ Booted(c.name)
                     /\ SetCall(p, ReturnStatus(c, "started"))
                ELSE /\ UNCHANGED hyper
                     /\ SetCall(p, Wrapped(c))
    /\ UNCHANGED <<clock, cpu_cache, openHandles, started, snapshots, config,
                   lastCall, pace, probe, lastSample>>

\* ----------------------------------------------------------------- time
\* d seconds pass (before a call reads time.time(), or while it sleeps).
\* Meanwhile each running domain accumulates CPU time at load r (0 = idle,
\* NsPerSec = all of its vCPUs busy).
TimePasses(d, r) ==
    /\ d \in pace.gaps
    /\ r \in pace.loads
    /\ clock + d <= MaxClock
    /\ clock' = clock + d
    /\ cpuTime' = [v \in VMs |->
                     IF domActive[v] THEN cpuTime[v] + r * d * LiveVcpus[v]
                     ELSE cpuTime[v]]
    /\ UNCHANGED <<domActive, shutdownReq, pace, probe, lastSample>>

\* ----------------------------------------------------------- _parse_xml
\* dom.XMLDesc(0): the definition the domain runs with, or the persistent
\* configuration of a domain that does not run.
XmlDesc(v) == IF domActive[v] THEN DefaultConfig(v) ELSE config[v]

\* `ET.fromstring(dom.XMLDesc(0))`: the call fetched and parsed the
\* description of domain v once more.
ParseXml(c, v) == [c EXCEPT !.parsed = Append(@, <<v, XmlDesc(v)>>)]

\* ------------------------------------------------------------ vm_metrics
\* round(x, 2) of the exact quotient n / d (n >= 0, d > 0), in hundredths
\* when n is in hundredths: ties go to the even neighbour.
RoundHalfEven(n, d) ==
    LET q == n \div d
        r == n % d
    IN  IF 2 * r < d THEN q
        ELSE IF 2 * r > d THEN q + 1
        ELSE IF q % 2 = 0 THEN q ELSE q + 1

\* The same arithmetic without `max(0.0, min(..., 100.0))`.
CpuPercentUnclamped(cpu_time_0, timestamp_0, cpu_time_1, timestamp_1, vcpus) ==
    LET dt == timestamp_1 - timestamp_0
        num_cpus == IF vcpus = 0 THEN 1 ELSE vcpus
        den == dt * num_cpus * NsPerSec
        num == (cpu_time_1 - cpu_time_0) * 100
    IN  IF dt <= 0 THEN 0
        ELSE IF num <= 0 THEN 0
        ELSE RoundHalfEven(num * 100, den)

\* The arithmetic of _compute_cpu_percent, in hundredths of a percent:
\*   dt = timestamp_1 - timestamp_0; if dt <= 0: return 0.0
\*   num_cpus = vcpus or 1
\*   round(max(0.0, min((dc / (dt * num_cpus * 1e9)) * 100, 100.0)), 2)
CpuPercent(cpu_time_0, timestamp_0, cpu_time_1, timestamp_1, vcpus) ==
    LET dt == timestamp_1 - timestamp_0
        num_cpus == IF vcpus = 0 THEN 1 ELSE vcpus
        den == dt * num_cpus * NsPerSec
        num == (cpu_time_1 - cpu_time_0) * 100
    IN  IF dt <= 0 THEN 0
        ELSE IF num <= 0 THEN 0
        ELSE IF num >= 100 * den THEN 10000
        ELSE RoundHalfEven(num * 100, den)

\* A vm_metrics without the `if not dom.isActive()` early return.
MetricsCheckSamples(c, ok, active) ==
    IF ~ok THEN Raise(c, RawLibvirtError)
    ELSE [c EXCEPT !.sawActive = active, !.pc = "m_now"]

MetricsCheckResult(c, ok, active) ==
    IF ~ok THEN Raise(c, RawLibvirtError)
    ELSE IF ~active
         THEN ReturnStatus([c EXCEPT !.sawActive = FALSE,
                                     !.cpu_percent = 0,
                                     !.sample = StoppedSample], "stopped")
         ELSE [c EXCEPT !.sawActive = TRUE, !.pc = "m_now"]

\* `if not dom.isActive(): return {... "state": "stopped" ...}`; vm_metrics
\* has no except clause, so a libvirtError leaves it as it is.
MetricsCheck(p) ==
    /\ calls[p].op = "vm_metrics"
    /\ calls[p].pc = "isActive"
    /\ \E ok \in BOOLEAN :
          SetCall(p, MetricsCheckResult(calls[p], ok,
                                        domActive[calls[p].name]))
    /\ UNCHANGED <<hyper, clock, cpu_cache, openHandles, started, snapshots,
                   config, lastCall, pace, probe, lastSample>>

\* _compute_cpu_percent: `now = time.time()`
SampleNow(p) ==
    /\ calls[p].op = "vm_metrics"
    /\ calls[p].pc = "m_now"
    /\ \E d \in Gaps, r \in 0..NsPerSec : TimePasses(d, r)
    /\ SetCall(p, [calls[p] EXCEPT !.now = clock', !.pc = "m_get"])
    /\ UNCHANGED <<cpu_cache, openHandles, started, snapshots, config,
                   lastCall, pace, probe, lastSample>>

\* `prev = self._cpu_cache.get(name)`
SampleGet(p) ==
    /\ calls[p].op = "vm_metrics"
    /\ calls[p].pc = "m_get"
    /\ SetCall(p, [calls[p] EXCEPT !.prev = cpu_cache[calls[p].name],
                                   !.pc = "m_info1"])
    /\ UNCHANGED <<hyper, clock, cpu_cache, openHandles, started, snapshots,
                   config, lastCall, pace, probe, lastSample>>

\* The test with `<=` in place of `<`.
FreshInclusive(prev, now) ==
    prev # NoEntry /\ now - prev.timestamp <= FreshSeconds

\* `if prev and (now - prev["timestamp"]) < 5`
Fresh(prev, now) ==
    prev # NoEntry /\ now - prev.timestamp < FreshSeconds

\* A baseline that takes the cached counter but stamps it with `now`.
BaselineStamped(c, cpu_time_1) ==
    IF Fresh(c.prev, c.now)
    THEN [c EXCEPT !.cpu_time_1 = cpu_time_1, !.timestamp_1 = c.now,
                   !.cpu_time_0 = c.prev.cpu_time,
                   !.timestamp_0 = c.now,
                   !.pc = "m_put"]
    ELSE [c EXCEPT !.cpu_time_1 = cpu_time_1, !.timestamp_1 = c.now,
                   !.cpu_time_0 = cpu_time_1,
                   !.timestamp_0 = c.now,
                   !.pc = "m_sleep"]

\* The baseline of the measurement: the cached entry when it is fresh, else
\* the reading just taken (and the call goes on to sleep).
Baseline(c, cpu_time_1) ==
    IF Fresh(c.prev, c.now)
    THEN [c EXCEPT !.cpu_time_1 = cpu_time_1, !.timestamp_1 = c.now,
                   !.cpu_time_0 = c.prev.cpu_time,
                   !.timestamp_0 = c.prev.timestamp,
                   !.pc = "m_put"]
    ELSE [c EXCEPT !.cpu_time_1 = cpu_time_1, !.timestamp_1 = c.now,
                   !.cpu_time_0 = cpu_time_1,
                   !.timestamp_0 = c.now,
                   !.pc = "m_sleep"]

\* `info1 = dom.info()` and the choice of the baseline.
SampleInfo1(p) ==
    /\ calls[p].op = "vm_metrics"
    /\ calls[p].pc = "m_info1"
    /\ LET c == [calls[p] EXCEPT !.reads = @ + 1] IN
       \E ok \in BOOLEAN :
          SetCall(p, IF ok THEN Baseline(c, cpuTime[c.name])
                     ELSE Raise(c, RawLibvirtError))
    /\ UNCHANGED <<hyper, clock, cpu_cache, openHandles, started, snapshots,
                   config, lastCall, pace, probe, lastSample>>

\* `time.sleep(1)`, `info2 = dom.info()`, `timestamp_1 = time.time()`: the
\* thread is suspended for at least a second, then reads the counter and
\* the clock again.
SampleSleep(p) ==
    /\ calls[p].op = "vm_metrics"
    /\ calls[p].pc = "m_sleep"
    /\ \E d \in {g \in Gaps : g >= SleepSeconds}, r \in 0..NsPerSec : TimePasses(d, r)
    /\ SetCall(p, [calls[p] EXCEPT !.slept = TRUE, !.pc = "m_info2"])
    /\ UNCHANGED <<cpu_cache, openHandles, started, snapshots, config,
                   lastCall, pace, probe, lastSample>>

SampleInfo2(p) ==
    /\ calls[p].op = "vm_metrics"
    /\ calls[p].pc = "m_info2"
    /\ LET c == [calls[p] EXCEPT !.reads = @ + 1] IN
       \E ok \in BOOLEAN :
          SetCall(p, IF ok
                     THEN [c EXCEPT !.cpu_time_1 = cpuTime[c.name],
                                    !.timestamp_1 = clock,
                                    !.pc = "m_put"]
                     ELSE Raise(c, RawLibvirtError))
    /\ UNCHANGED <<hyper, clock, cpu_cache, openHandles, started, snapshots,
                   config, lastCall, pace, probe, lastSample>>

\* An entry made of the baseline instead of the latest reading.
StaleEntry(c) == [cpu_time |-> c.cpu_time_0, timestamp |-> c.timestamp_0]

\* An entry that is made by the first call and kept by the later ones.
FirstEntryKept(c) ==
    IF c.prev # NoEntry THEN c.prev
    ELSE [cpu_time |-> c.cpu_time_1, timestamp |-> c.timestamp_1]

\* The entry a call leaves in the cache.
NewEntry(c) == [cpu_time |-> c.cpu_time_1, timestamp |-> c.timestamp_1]

\* `self._cpu_cache[name] = {"cpu_time": cpu_time_1, "timestamp": timestamp_1}`
SamplePut(p) ==
    /\ calls[p].op = "vm_metrics"
    /\ calls[p].pc = "m_put"
    /\ cpu_cache' = [cpu_cache EXCEPT ![calls[p].name] = NewEntry(calls[p])]
    /\ lastSample' = [lastSample EXCEPT ![calls[p].name] =
                        [cpu_time |-> calls[p].cpu_time_1,
                         timestamp |-> calls[p].timestamp_1]]
    /\ SetCall(p, [calls[p] EXCEPT !.stored = TRUE, !.pc = "m_calc"])
    /\ UNCHANGED <<hyper, clock, openHandles, started, snapshots, config,
                   lastCall, pace, probe>>

\* `dt = ...; if dt <= 0: return 0.0; num_cpus = dom.info()[3] or 1; ...`
SampleCalcResult(c, ok, vcpus) ==
    IF c.timestamp_1 - c.timestamp_0 <= 0
    THEN [c EXCEPT !.zeroDt = TRUE, !.cpu_percent = 0, !.pc = "m_rest"]
    ELSE IF ~ok THEN Raise([c EXCEPT !.reads = @ + 1], RawLibvirtError)
    ELSE [c EXCEPT !.reads = @ + 1,
                   !.cpu_percent =
                      CpuPercent(c.cpu_time_0, c.timestamp_0,
                                 c.cpu_time_1, c.timestamp_1, vcpus),
                   !.pc = "m_rest"]

SampleCalc(p) ==
    /\ calls[p].op = "vm_metrics"
    /\ calls[p].pc = "m_calc"
    /\ \E ok \in BOOLEAN :
          SetCall(p, SampleCalcResult(calls[p], ok, LiveVcpus[calls[p].name]))
    /\ UNCHANGED <<hyper, clock, cpu_cache, openHandles, started, snapshots,
                   config, lastCall, pace, probe, lastSample>>

\* A loop that stops at the first device whose statistics cannot be read.
ReadUntilFailure(devices, unread) ==
    LET bad == {i \in 1..Len(devices) : devices[i] \in unread} IN
    IF bad = {} THEN devices
    ELSE SubSeq(devices, 1, (CHOOSE i \in bad : \A j \in bad : i <= j) - 1)

\* The devices of a list in order, one entry per device whose statistics
\* could be read: `for dev in ...: try: ...append({...}) except
\* libvirt.libvirtError: logger.warning(...)`.
ReadEach(devices, unread) == SelectSeq(devices, LAMBDA d : d \notin unread)

\* The sample of a domain whose counters were read: state from dom.info(),
\* memory figures from max_mem_kib and mem_kib (memoryStats failing or not
\* reporting) of the instance as it was booted, one entry per device whose
\* statistics could be read.
RunningSample(c, active, conf, unread) ==
    [state |-> StateLabel(DomState(active)),
     cpu_percent |-> c.cpu_percent,
     memory_percent |-> IF conf.maxmem > 0
                        THEN RoundHalfEven(conf.mem * 10000, conf.maxmem)
                        ELSE 0,
     memory_used_mb |-> RoundHalfEven(conf.mem, 1024),
     memory_total_mb |-> RoundHalfEven(conf.maxmem, 1024),
     disk_io |-> ReadEach(DiskTargets, unread),
     network_io |-> ReadEach(NetworkInterfaces, unread)]

\* The rest of vm_metrics: dom.info(), memoryStats (caught), XMLDesc, the
\* per-device blockStats and interfaceStats (caught: the device is left
\* out), `return metrics`.
MetricsRest(p) ==
    /\ calls[p].op = "vm_metrics"
    /\ calls[p].pc = "m_rest"
    /\ \E ok \in BOOLEAN, unread \in pace.faults :
          LET r == [calls[p] EXCEPT !.reads = @ + 1,
                                    !.unread = IF ok THEN unread ELSE {}]
              c == IF ok THEN ParseXml(r, r.name) ELSE r IN
          SetCall(p, IF ok
                     THEN ReturnStatus(
                            [c EXCEPT !.sample =
                                RunningSample(c, domActive[c.name],
                                              DefaultConfig(c.name), unread)],
                            IF domActive[c.name] THEN "running"
                            ELSE "stopped")
                     ELSE Raise(c, RawLibvirtError))
    /\ UNCHANGED <<hyper, clock, cpu_cache, openHandles, started, snapshots,
                   config, lastCall, pace, probe, lastSample>>

\* -------------------------------------------------------- _vm_basic_info
\* root.find(...) found no element, or one without text.
NoElement == -1

\* _get_max_memory_from_xml, _get_vcpus_from_xml: int(elem.text), or 0
\* when there is no element or no text.
GetFromXml(text) == IF text = NoElement THEN 0 ELSE text

\* A choice that takes the live counter whenever it has one.
PreferLive(a, b) == IF b # 0 THEN b ELSE a

\* Python's `a or b` on integers.
PyOr(a, b) == IF a # 0 THEN a ELSE b

\* The fields _vm_basic_info derives from dom.info() and the XML
\* description: state, vcpus, memory_mb.
BasicInfo(info, xml) ==
    [state |-> StateLabel(info.state_id),
     vcpus |-> PyOr(GetFromXml(xml.vcpu), info.vcpus),
     memory_mb |-> RoundHalfEven(PyOr(GetFromXml(xml.memory),
                                      info.max_mem_kib), 1024)]

\* -------------------------------------------------------------- list_vms
VMOrder == <<"vm1", "vm2">>

\* What _vm_basic_info returns for a domain, as far as the fleet counts use it.
Descriptor(v) ==
    [name |-> v, is_active |-> domActive[v],
     state |-> StateLabel(DomState(domActive[v]))]

\* `for dom_id in conn.listDomainsID()`: the IDs of the running domains; the
\* enumeration is outside the per-VM try block.
ListActiveIds(p) ==
    /\ calls[p].fn = "list_vms"
    /\ calls[p].pc = "lv_ids"
    /\ \E ok \in BOOLEAN :
          SetCall(p, IF ok
                     THEN [calls[p] EXCEPT
                             !.lookups = @ + 1,
                             !.todo = SelectSeq(VMOrder,
                                                LAMBDA v : domActive[v]),
                             !.enumerated =
                                @ \o SelectSeq(VMOrder,
                                               LAMBDA v : domActive[v]),
                             !.pc = "lv_byid"]
                     ELSE Raise([calls[p] EXCEPT !.lookups = @ + 1],
                                RawLibvirtError))
    /\ UNCHANGED <<hyper, clock, cpu_cache, openHandles, started, snapshots,
                   config, lastCall, pace, probe, lastSample>>

\* A listing loop that lets the failure of one domain end the listing.
DescribeOrAbort(c, ok) ==
    IF ok
    THEN [c EXCEPT !.todo = Tail(@),
                   !.vms = Append(@, Descriptor(Head(c.todo)))]
    ELSE Raise([c EXCEPT !.todo = <<>>, !.skipped = @ + 1,
                         !.omitted = Append(@, Head(c.todo))],
               RawLibvirtError)

\* One turn of a listing loop: `dom = conn.lookupByID(dom_id)` (or
\* lookupByName) and `vms.append(self._vm_basic_info(dom))`; a libvirtError
\* is logged and the domain skipped.
DescribeNext(c, ok) ==
    [(IF ok THEN ParseXml(c, Head(c.todo)) ELSE c) EXCEPT
        !.todo = Tail(@),
        !.vms = IF ok THEN Append(@, Descriptor(Head(c.todo))) ELSE @,
        !.skipped = IF ok THEN @ ELSE @ + 1,
        !.omitted = IF ok THEN @ ELSE Append(@, Head(c.todo))]

\* An ID stays valid only while its domain runs.
DescribeById(p) ==
    /\ calls[p].fn = "list_vms"
    /\ calls[p].pc = "lv_byid"
    /\ IF calls[p].todo = <<>>
       THEN SetCall(p, [calls[p] EXCEPT !.pc = "lv_names"])
       ELSE \E ok \in Outcomes(domActive[Head(calls[p].todo)]) :
               SetCall(p, DescribeNext(calls[p], ok))
    /\ UNCHANGED <<hyper, clock, cpu_cache, openHandles, started, snapshots,
                   config, lastCall, pace, probe, lastSample>>

\* `for name in conn.listDefinedDomains()`: the defined domains that are
\* not running.
ListDefinedNames(p) ==
    /\ calls[p].fn = "list_vms"
    /\ calls[p].pc = "lv_names"
    /\ \E ok \in BOOLEAN :
          SetCall(p, IF ok
                     THEN [calls[p] EXCEPT
                             !.lookups = @ + 1,
                             !.todo = SelectSeq(VMOrder,
                                                LAMBDA v : ~domActive[v]),
                             !.enumerated =
                                @ \o SelectSeq(VMOrder,
                                               LAMBDA v : ~domActive[v]),
                             !.pc = "lv_byname"]
                     ELSE Raise([calls[p] EXCEPT !.lookups = @ + 1],
                                RawLibvirtError))
    /\ UNCHANGED <<hyper, clock, cpu_cache, openHandles, started, snapshots,
                   config, lastCall, pace, probe, lastSample>>

DescribeByName(p) ==
    /\ calls[p].fn = "list_vms"
    /\ calls[p].pc = "lv_byname"
    /\ IF calls[p].todo = <<>>
       THEN SetCall(p, ReturnStatus(calls[p], "listed"))
       ELSE \E ok \in BOOLEAN : SetCall(p, DescribeNext(calls[p], ok))
    /\ UNCHANGED <<hyper, clock, cpu_cache, openHandles, started, snapshots,
                   config, lastCall, pace, probe, lastSample>>

\* ---------------------------------------------------------- global_stats
\* A split that forgets to take the minor part modulo a million.
VersionPartsNoMod(version_int) ==
    [major |-> version_int \div 1000000,
     minor |-> version_int \div 1000,
     patch |-> version_int % 1000]

\* _format_version: `major = version_int // 1_000_000`, `minor =
\* (version_int % 1_000_000) // 1_000`, `patch = version_int % 1_000`.
VersionParts(version_int) ==
    [major |-> version_int \div 1000000,
     minor |-> (version_int % 1000000) \div 1000,
     patch |-> version_int % 1000]

\* f"{major}.{minor}.{patch}".
FormatVersion(version_int) ==
    LET v == VersionParts(version_int) IN
    ToString(v.major) \o "." \o ToString(v.minor) \o "."
       \o ToString(v.patch)

\* getHostname, getInfo, getLibVersion, getType, then `self.list_vms()`,
\* which opens a connection of its own.
HostInfo(p) ==
    /\ calls[p].op = "global_stats"
    /\ calls[p].pc = "gs_host"
    /\ \E ok \in BOOLEAN :
          SetCall(p, IF ok
                     THEN [calls[p] EXCEPT !.fn = "list_vms",
                                           !.pc = "connect"]
                     ELSE Raise(calls[p], RawLibvirtError))
    /\ UNCHANGED <<hyper, clock, cpu_cache, openHandles, started, snapshots,
                   config, lastCall, pace, probe, lastSample>>

\* A fold that counts the domains it had to skip into the total.
StatsWithSkipped(all_vms, skipped) ==
    LET active == Cardinality({i \in 1..Len(all_vms) : all_vms[i].is_active})
        total == Len(all_vms) + skipped
    IN  [vms_total |-> total, vms_active |-> active,
         vms_inactive |-> total - active,
         state_distribution |->
            [st \in {all_vms[i].state : i \in 1..Len(all_vms)} |->
                Cardinality({i \in 1..Len(all_vms) : all_vms[i].state = st})]]

\* `total = len(all_vms)`, `active = sum(1 for vm in all_vms if
\* vm["is_active"])`, the per-state counts, `"vms_inactive": total - active`.
\* The domains list_vms skipped are not in all_vms.
StatsOf(all_vms, skipped) ==
    LET active == Cardinality({i \in 1..Len(all_vms) : all_vms[i].is_active})
        total == Len(all_vms)
    IN  [vms_total |-> total, vms_active |-> active,
         vms_inactive |-> total - active,
         state_distribution |->
            [st \in {all_vms[i].state : i \in 1..Len(all_vms)} |->
                Cardinality({i \in 1..Len(all_vms) : all_vms[i].state = st})]]

\* The counts over all_vms and `return {...}`.
FoldStats(p) ==
    /\ calls[p].op = "global_stats"
    /\ calls[p].pc = "gs_fold"
    /\ SetCall(p, ReturnStatus([calls[p] EXCEPT
                                  !.stats = StatsOf(calls[p].vms,
                                                    calls[p].skipped)],
                               "stats"))
    /\ UNCHANGED <<hyper, clock, cpu_cache, openHandles, started, snapshots,
                   config, lastCall, pace, probe, lastSample>>

\* ------------------------------------------------------------ vm_details
\* vm_details has no except clause of its own: a failing hypervisor call
\* leaves it as a raw libvirtError.
\* `info = self._vm_basic_info(dom)`: dom.info() and a first _parse_xml,
\* for vcpus and memory_mb.
DetailsBasicInfo(p) ==
    /\ calls[p].op = "vm_details"
    /\ calls[p].pc = "vd_info"
    /\ \E ok \in BOOLEAN :
          SetCall(p, IF ok
                     THEN [ParseXml(calls[p], calls[p].name) EXCEPT
                             !.pc = "vd_root"]
                     ELSE Raise(calls[p], RawLibvirtError))
    /\ UNCHANGED <<hyper, clock, cpu_cache, openHandles, started, snapshots,
                   config, lastCall, pace, probe, lastSample>>

\* `root = self._parse_xml(dom)`: a second one, for network_interfaces,
\* os_type and vnc_port.
DetailsRoot(p) ==
    /\ calls[p].op = "vm_details"
    /\ calls[p].pc = "vd_root"
    /\ \E ok \in BOOLEAN :
          SetCall(p, IF ok
                     THEN [ParseXml(calls[p], calls[p].name) EXCEPT
                             !.pc = "vd_disks"]
                     ELSE Raise(calls[p], RawLibvirtError))
    /\ UNCHANGED <<hyper, clock, cpu_cache, openHandles, started, snapshots,
                   config, lastCall, pace, probe, lastSample>>

\* `info["disks"] = self._get_disks_info(dom, conn)`: a third one, inside
\* _get_disks_info, for the disks.
DetailsDisks(p) ==
    /\ calls[p].op = "vm_details"
    /\ calls[p].pc = "vd_disks"
    /\ \E ok \in BOOLEAN :
          SetCall(p, IF ok
                     THEN [ParseXml(calls[p], calls[p].name) EXCEPT
                             !.pc = "vd_rest"]
                     ELSE Raise(calls[p], RawLibvirtError))
    /\ UNCHANGED <<hyper, clock, cpu_cache, openHandles, started, snapshots,
                   config, lastCall, pace, probe, lastSample>>

\* The fields read from `root`, autostart (caught), isPersistent, and
\* `return info`.
Details(p) ==
    /\ calls[p].op = "vm_details"
    /\ calls[p].pc = "vd_rest"
    /\ \E ok \in BOOLEAN :
          SetCall(p, IF ok THEN ReturnStatus(calls[p], "details")
                     ELSE Raise(calls[p], RawLibvirtError))
    /\ UNCHANGED <<hyper, clock, cpu_cache, openHandles, started, snapshots,
                   config, lastCall, pace, probe, lastSample>>

\* ------------------------------------------------------------- snapshots
\* Domain v has a snapshot named s.
HasSnapshot(v, s) ==
    \E i \in 1..Len(snapshots[v]) : snapshots[v][i].name = s

\* The snapshot of v named s (dom.snapshotLookupByName).
SnapshotNamed(v, s) ==
    snapshots[v][CHOOSE i \in 1..Len(snapshots[v]) :
                    snapshots[v][i].name = s]

\* `dom.snapshotListNames()`; list_snapshots has no except clause.
ListSnapshotNames(p) ==
    /\ calls[p].op = "list_snapshots"
    /\ calls[p].pc = "ls_names"
    /\ \E ok \in BOOLEAN :
          SetCall(p, IF ok
                     THEN [calls[p] EXCEPT
                             !.todo = [i \in 1..Len(snapshots[calls[p].name])
                                         |-> snapshots[calls[p].name][i].name],
                             !.pc = "ls_next"]
                     ELSE Raise(calls[p], RawLibvirtError))
    /\ UNCHANGED <<hyper, clock, cpu_cache, openHandles, started, snapshots,
                   config, lastCall, pace, probe, lastSample>>

\* The descriptor appended for a snapshot: `int(creation_time.text) if
\* creation_time is not None else 0`.
SnapshotDescriptor(snap) ==
    [name |-> snap.name,
     creation_time |-> IF snap.creation_time = NoTime THEN 0
                       ELSE snap.creation_time,
     state |-> snap.state]

\* Where x goes in a list already in order: behind every element that is
\* not older than x. Python's sort is stable, also with reverse=True.
RECURSIVE InsertByAge(_, _)
InsertByAge(x, sorted) ==
    IF sorted = <<>> THEN <<x>>
    ELSE IF Head(sorted).creation_time >= x.creation_time
         THEN <<Head(sorted)>> \o InsertByAge(x, Tail(sorted))
         ELSE <<x>> \o sorted

\* sorted(snapshots, key=creation_time) without reverse=True.
RECURSIVE OldestFirst(_)
OldestFirst(descs) ==
    IF descs = <<>> THEN <<>>
    ELSE LET rest == OldestFirst(SubSeq(descs, 1, Len(descs) - 1))
             x == descs[Len(descs)]
             older == SelectSeq(rest,
                         LAMBDA y : y.creation_time <= x.creation_time)
             newer == SelectSeq(rest,
                         LAMBDA y : y.creation_time > x.creation_time)
         IN  older \o <<x>> \o newer

\* `sorted(snapshots, key=lambda x: x["creation_time"], reverse=True)`
RECURSIVE NewestFirst(_)
NewestFirst(descs) ==
    IF descs = <<>> THEN <<>>
    ELSE InsertByAge(descs[Len(descs)],
                     NewestFirst(SubSeq(descs, 1, Len(descs) - 1)))

\* One turn of the loop: snapshotLookupByName, getXMLDesc, isCurrent (a
\* libvirtError leaves the operation as it is); after the last turn, the
\* sorted list is returned.
ResolveSnapshot(p) ==
    /\ calls[p].op = "list_snapshots"
    /\ calls[p].pc = "ls_next"
    /\ LET c == calls[p] IN
       IF c.todo = <<>>
       THEN SetCall(p, ReturnStatus([c EXCEPT !.snaps = NewestFirst(@)],
                                    "listed"))
       ELSE \E ok \in Outcomes(HasSnapshot(c.name, Head(c.todo))) :
               SetCall(p, IF ok
                          THEN [c EXCEPT
                                 !.todo = Tail(@),
                                 !.snaps = Append(@, SnapshotDescriptor(
                                    SnapshotNamed(c.name, Head(c.todo))))]
                          ELSE Raise(c, RawLibvirtError))
    /\ UNCHANGED <<hyper, clock, cpu_cache, openHandles, started, snapshots,
                   config, lastCall, pace, probe, lastSample>>

\* What a snapshot taken now of domain v holds.
Captured(v) == IF domActive[v] THEN "running" ELSE "shutoff"

\* create_snapshot: `dom.snapshotCreateXML(xml, 0)`; a name already in use
\* is refused by the hypervisor.
CreateSnapshot(p) ==
    /\ calls[p].op = "create_snapshot"
    /\ calls[p].pc = "cs_create"
    /\ LET c == Issue(calls[p], "snapshotCreateXML") IN
       \E ok \in Outcomes(~HasSnapshot(c.name, c.snap)) :
          IF ok THEN /\ snapshots' = [snapshots EXCEPT ![c.name] =
                            Append(@, [name |-> c.snap,
                                       creation_time |-> clock,
                                       state |-> Captured(c.name)])]
                     /\ SetCall(p, ReturnStatus(c, "created"))
                ELSE /\ UNCHANGED snapshots
                     /\ SetCall(p, Wrapped(c))
    /\ UNCHANGED <<hyper, clock, cpu_cache, openHandles, started, config,
                   lastCall, pace, probe, lastSample>>

\* revert_snapshot / delete_snapshot: `dom.snapshotLookupByName(name)`; a
\* libvirtError (no such snapshot) is wrapped like any other.
SnapshotLookupResult(c, ok) ==
    IF ok THEN [c EXCEPT !.pc = "snap_act"] ELSE Wrapped(c)

SnapshotLookup(p) ==
    /\ calls[p].op \in {"revert_snapshot", "delete_snapshot"}
    /\ calls[p].pc = "snap_lookup"
    /\ LET c == calls[p] IN
       \E ok \in Outcomes(HasSnapshot(c.name, c.snap)) :
          SetCall(p, SnapshotLookupResult(c, ok))
    /\ UNCHANGED <<hyper, clock, cpu_cache, openHandles, started, snapshots,
                   config, lastCall, pace, probe, lastSample>>

\* `dom.revertToSnapshot(snap, 0)`: the domain takes the state the
\* snapshot holds.
RevertSnapshot(p) ==
    /\ calls[p].op = "revert_snapshot"
    /\ calls[p].pc = "snap_act"
    /\ LET c == Issue(calls[p], "revertToSnapshot") IN
       \E ok \in Outcomes(HasSnapshot(c.name, c.snap)) :
          IF ok THEN /\ IF SnapshotNamed(c.name, c.snap).state = "running"
                        THEN Booted(c.name) ELSE PoweredOff(c.name)
                     /\ SetCall(p, ReturnStatus(c, "reverted"))
                ELSE /\ UNCHANGED hyper
                     /\ SetCall(p, Wrapped(c))
    /\ UNCHANGED <<clock, cpu_cache, openHandles, started, snapshots, config,
                   lastCall, pace, probe, lastSample>>

\* `snap.delete(0)`
DeleteSnapshot(p) ==
    /\ calls[p].op = "delete_snapshot"
    /\ calls[p].pc = "snap_act"
    /\ LET c == Issue(calls[p], "snapshotDelete") IN
       \E ok \in Outcomes(HasSnapshot(c.name, c.snap)) :
          IF ok THEN /\ snapshots' = [snapshots EXCEPT ![c.name] =
                            SelectSeq(@, LAMBDA x : x.name # c.snap)]
                     /\ SetCall(p, ReturnStatus(c, "deleted"))
                ELSE /\ UNCHANGED snapshots
                     /\ SetCall(p, Wrapped(c))
    /\ UNCHANGED <<hyper, clock, cpu_cache, openHandles, started, config,
                   lastCall, pace, probe, lastSample>>

\* ------------------------------------------------------ update_resources
\* `flags = VIR_DOMAIN_AFFECT_CONFIG; if not dom.isActive(): flags =
\* VIR_DOMAIN_AFFECT_CURRENT`
ResizeCheckResult(c, ok, active) ==
    IF ~ok THEN Wrapped(c)
    ELSE [c EXCEPT !.sawActive = active,
                   !.flags = IF active THEN "AFFECT_CONFIG"
                             ELSE "AFFECT_CURRENT",
                   !.pc = "ur_maxmem"]

ResizeCheck(p) ==
    /\ calls[p].op = "update_resources"
    /\ calls[p].pc = "isActive"
    /\ \E ok \in BOOLEAN :
          SetCall(p, ResizeCheckResult(calls[p], ok,
                                       domActive[calls[p].name]))
    /\ UNCHANGED <<hyper, clock, cpu_cache, openHandles, started, snapshots,
                   config, lastCall, pace, probe, lastSample>>

\* memory_kib = memory_mb * 1024
MemoryKib(memory_mb) == memory_mb * 1024

\* The call issued hypervisor mutation m with argument arg and scope flags
\* (setMaxMemory takes no flags argument).
IssueScoped(c, m, arg, flags) ==
    [Issue(c, m) EXCEPT
        !.issued = Append(@, [call |-> m, arg |-> arg, flags |-> flags])]

Unscoped == "none"

\* `dom.setMaxMemory(memory_kib)`
ResizeMaxMemory(p) ==
    /\ calls[p].op = "update_resources"
    /\ calls[p].pc = "ur_maxmem"
    /\ LET kib == MemoryKib(calls[p].memory_mb)
           c == IssueScoped(calls[p], "setMaxMemory", kib, Unscoped) IN
       \E ok \in BOOLEAN :
          IF ok THEN /\ config' = [config EXCEPT ![c.name].maxmem = kib]
                     /\ SetCall(p, [c EXCEPT !.pc = "ur_mem"])
                ELSE /\ UNCHANGED config
                     /\ SetCall(p, Wrapped(c))
    /\ UNCHANGED <<hyper, clock, cpu_cache, openHandles, started, snapshots,
                   lastCall, pace, probe, lastSample>>

\* `dom.setMemoryFlags(memory_kib, flags)`
ResizeMemory(p) ==
    /\ calls[p].op = "update_resources"
    /\ calls[p].pc = "ur_mem"
    /\ LET kib == MemoryKib(calls[p].memory_mb)
           c == IssueScoped(calls[p], "setMemoryFlags", kib, calls[p].flags) IN
       \E ok \in BOOLEAN :
          IF ok THEN /\ config' = [config EXCEPT ![c.name].mem = kib]
                     /\ SetCall(p, [c EXCEPT !.pc = "ur_vcpus"])
                ELSE /\ UNCHANGED config
                     /\ SetCall(p, Wrapped(c))
    /\ UNCHANGED <<hyper, clock, cpu_cache, openHandles, started, snapshots,
                   lastCall, pace, probe, lastSample>>

\* `dom.setVcpusFlags(vcpus, flags)`
ResizeVcpus(p) ==
    /\ calls[p].op = "update_resources"
    /\ calls[p].pc = "ur_vcpus"
    /\ LET c == IssueScoped(calls[p], "setVcpusFlags", calls[p].vcpus,
                            calls[p].flags) IN
       \E ok \in BOOLEAN :
          IF ok THEN /\ config' = [config EXCEPT ![c.name].vcpus = c.vcpus]
                     /\ SetCall(p, [c EXCEPT !.pc = "ur_done"])
                ELSE /\ UNCHANGED config
                     /\ SetCall(p, Wrapped(c))
    /\ UNCHANGED <<hyper, clock, cpu_cache, openHandles, started, snapshots,
                   lastCall, pace, probe, lastSample>>

\* An update_resources that always answers restart_needed = False.
ResizeDoneNoRestart(c, ok, active) ==
    IF ~ok THEN Wrapped(c)
    ELSE ReturnStatus([c EXCEPT !.restart_needed = FALSE], "updated")

\* `restart_needed = dom.isActive()` and `return {"status": "updated", ...}`
ResizeDoneResult(c, ok, active) ==
    IF ~ok THEN Wrapped(c)
    ELSE ReturnStatus([c EXCEPT !.restart_needed = active], "updated")

ResizeDone(p) ==
    /\ calls[p].op = "update_resources"
    /\ calls[p].pc = "ur_done"
    /\ \E ok \in BOOLEAN :
          SetCall(p, ResizeDoneResult(calls[p], ok,
                                      domActive[calls[p].name]))
    /\ UNCHANGED <<hyper, clock, cpu_cache, openHandles, started, snapshots,
                   config, lastCall, pace, probe, lastSample>>

\* ------------------------------------------------------- finally, return
\* `finally: conn.close()`. For list_vms called by global_stats, control
\* then returns to global_stats: to its fold on a result, to its own finally
\* clause on an exception.
FinallyResult(c) ==
    IF Nested(c)
    THEN [c EXCEPT !.held = @ - 1, !.fn = "global_stats",
                   !.status = "",
                   !.pc = IF c.err # NoError THEN "finally" ELSE "gs_fold"]
    ELSE [c EXCEPT !.held = @ - 1, !.pc = "done"]

Finally(p) ==
    /\ calls[p].pc = "finally"
    /\ SetCall(p, FinallyResult(calls[p]))
    /\ openHandles' = openHandles - 1
    /\ UNCHANGED <<hyper, clock, cpu_cache, started, snapshots, config,
                   lastCall, pace, probe, lastSample>>

\* The operation returns or raises to its request handler, whose thread is
\* free for the next request.
Return(p) ==
    /\ calls[p].pc = "done"
    /\ SetCall(p, IdleCall)
    /\ UNCHANGED <<hyper, clock, cpu_cache, openHandles, started, snapshots,
                   config, lastCall, pace, probe, lastSample>>

\* The same, keeping a note of the call that returned.
ReturnNoted(p) ==
    /\ calls[p].pc = "done"
    /\ lastCall' = [op |-> calls[p].op, name |-> calls[p].name,
                    force |-> calls[p].force, status |-> calls[p].status,
                    err |-> calls[p].err]
    /\ SetCall(p, IdleCall)
    /\ UNCHANGED <<hyper, clock, cpu_cache, openHandles, started, snapshots,
                   config, pace, probe, lastSample>>

\* ---------------------------------------------------------- specification
LifeStep(p) ==
    \/ Connect(p) \/ GetDomain(p)
    \/ StartCheck(p) \/ StartCreate(p)
    \/ StopCheck(p) \/ StopDestroy(p) \/ StopShutdown(p)
    \/ RestartCheck(p) \/ RestartReset(p) \/ RestartFallbackDestroy(p)
    \/ RestartFallbackCreate(p) \/ RestartReboot(p) \/ RestartCreate(p)
    \/ Finally(p)

SampleStep(p) ==
    \/ Connect(p) \/ GetDomain(p)
    \/ MetricsCheck(p) \/ SampleNow(p) \/ SampleGet(p) \/ SampleInfo1(p)
    \/ SampleSleep(p) \/ SampleInfo2(p) \/ SamplePut(p) \/ SampleCalc(p)
    \/ MetricsRest(p)
    \/ StartCheck(p) \/ StartCreate(p)
    \/ StopCheck(p) \/ StopDestroy(p)
    \/ Finally(p)

Step(p) ==
    \/ Connect(p) \/ GetDomain(p)
    \/ StartCheck(p) \/ StartCreate(p)
    \/ StopCheck(p) \/ StopDestroy(p) \/ StopShutdown(p)
    \/ RestartCheck(p) \/ RestartReset(p) \/ RestartFallbackDestroy(p)
    \/ RestartFallbackCreate(p) \/ RestartReboot(p) \/ RestartCreate(p)
    \/ MetricsCheck(p) \/ SampleNow(p) \/ SampleGet(p) \/ SampleInfo1(p)
    \/ SampleSleep(p) \/ SampleInfo2(p) \/ SamplePut(p) \/ SampleCalc(p)
    \/ MetricsRest(p)
    \/ ListActiveIds(p) \/ DescribeById(p) \/ ListDefinedNames(p)
    \/ DescribeByName(p) \/ HostInfo(p) \/ FoldStats(p)
    \/ DetailsBasicInfo(p) \/ DetailsRoot(p) \/ DetailsDisks(p) \/ Details(p)
    \/ ListSnapshotNames(p) \/ ResolveSnapshot(p) \/ CreateSnapshot(p)
    \/ SnapshotLookup(p) \/ RevertSnapshot(p) \/ DeleteSnapshot(p)
    \/ ResizeCheck(p) \/ ResizeMaxMemory(p) \/ ResizeMemory(p)
    \/ ResizeVcpus(p) \/ ResizeDone(p)
    \/ Finally(p)

\* Every operation, called by request handlers that run concurrently, one
\* thread each.
Next ==
    \/ \E p \in Procs : Begin(p) \/ Step(p) \/ Return(p)
    \/ \E v \in VMs : GuestPowerOff(v)

Spec == Init /\ [][Next]_vars

\* No request is in flight.
NoneInFlight == \A q \in Procs : calls[q].pc = "idle"

\* The life-cycle operations in a sequential run: a request is served only
\* when no other is in flight.
LifeRequests ==
    {c \in Requests : c.op \in {"start_vm", "stop_vm", "restart_vm"}}

BeginLife(p) ==
    /\ NoneInFlight
    /\ Call(p, LifeRequests)
    /\ UNCHANGED started

LifeSeqNext ==
    \/ \E p \in Procs : BeginLife(p) \/ LifeStep(p) \/ ReturnNoted(p)
    \/ \E v \in VMs : GuestPowerOff(v)

LifeSeqSpec == Init /\ [][LifeSeqNext]_vars

\* start_vm and the forced stop_vm, called by request handlers that run
\* concurrently.
StartStopRequests ==
    {c \in Requests : \/ c.op = "start_vm"
                      \/ c.op = "stop_vm" /\ c.force}

BeginStartStop(p) ==
    /\ started < MaxCalls
    /\ started' = started + 1
    /\ Call(p, StartStopRequests)

StartStopStep(p) ==
    \/ Connect(p) \/ GetDomain(p)
    \/ StartCheck(p) \/ StartCreate(p)
    \/ StopCheck(p) \/ StopDestroy(p)
    \/ Finally(p)

StartStopNext ==
    \E p \in Procs : BeginStartStop(p) \/ StartStopStep(p) \/ Return(p)

StartStopSpec == Init /\ [][StartStopNext]_vars

\* restart_vm in a sequential run, over domains that nothing else starts
\* or stops.
RestartRequests == {c \in Requests : c.op = "restart_vm"}

BeginRestart(p) ==
    /\ NoneInFlight
    /\ Call(p, RestartRequests)
    /\ UNCHANGED started

RestartStep(p) ==
    \/ Connect(p) \/ GetDomain(p)
    \/ RestartCheck(p) \/ RestartReset(p) \/ RestartFallbackDestroy(p)
    \/ RestartFallbackCreate(p) \/ RestartReboot(p) \/ RestartCreate(p)
    \/ Finally(p)

RestartSeqNext ==
    \E p \in Procs : BeginRestart(p) \/ RestartStep(p) \/ Return(p)

RestartSeqSpec == Init /\ [][RestartSeqNext]_vars

\* The metrics sampler, with domains stopped and started under it.
SampleRequests ==
    {c \in Requests : /\ c.name # "vm2"
                      /\ \/ c.op \in {"vm_metrics", "start_vm"}
                         \/ c.op = "stop_vm" /\ c.force}

\* Concurrent request handlers.
BeginSample(p) ==
    /\ started < MaxCalls
    /\ started' = started + 1
    /\ Call(p, SampleRequests)

SamplerNext ==
    \E p \in Procs : BeginSample(p) \/ SampleStep(p) \/ Return(p)

SamplerSpec == SamplerInit /\ [][SamplerNext]_vars

\* A sequential run.
BeginSampleSeq(p) ==
    /\ NoneInFlight
    /\ Call(p, SampleRequests)
    /\ UNCHANGED started

SeqSamplerNext ==
    \E p \in Procs : BeginSampleSeq(p) \/ SampleStep(p) \/ Return(p)

SeqSamplerSpec == SamplerInit /\ [][SeqSamplerNext]_vars

\* The same calls over a hypervisor on which any device statistics may fail.
DeviceSpec == DeviceInit /\ [][SeqSamplerNext]_vars

\* update_resources in a sequential run, with vm1 started and stopped between
\* the calls.
ResizeRequests ==
    {c \in Requests : /\ c.name = "vm1"
                      /\ c.op \in {"update_resources", "start_vm", "stop_vm"}}

BeginResize(p) ==
    /\ NoneInFlight
    /\ Call(p, ResizeRequests)
    /\ UNCHANGED started

ResizeStep(p) ==
    \/ Connect(p) \/ GetDomain(p)
    \/ ResizeCheck(p) \/ ResizeMaxMemory(p) \/ ResizeMemory(p)
    \/ ResizeVcpus(p) \/ ResizeDone(p)
    \/ StartCheck(p) \/ StartCreate(p)
    \/ StopCheck(p) \/ StopDestroy(p) \/ StopShutdown(p)
    \/ Finally(p)

ResizeSeqNext ==
    \/ \E p \in Procs : BeginResize(p) \/ ResizeStep(p) \/ Return(p)
    \/ \E v \in VMs : GuestPowerOff(v)

ResizeSeqSpec == SamplerInit /\ [][ResizeSeqNext]_vars

\* list_snapshots over a vm1 that has up to MaxSnaps snapshots, enumerated
\* in any order of age, some without a creationTime.
SnapName(i) == "s" \o ToString(i)

SnapTimes == {NoTime} \cup 1..MaxSnaps

SnapshotLists ==
    UNION {{[i \in 1..n |-> [name |-> SnapName(i), creation_time |-> t[i],
                             state |-> "shutoff"]] :
               t \in [1..n -> SnapTimes]} : n \in 0..MaxSnaps}

SnapListInit ==
    InitWith({[v \in VMs |-> FALSE]}, [gaps |-> {1}, loads |-> {NsPerSec},
              faults |-> AllOrNone],
             {NoProbe},
             {[v \in VMs |-> IF v = "vm1" THEN l ELSE <<>>] :
                 l \in SnapshotLists})

BeginList(p) ==
    /\ Call(p, {c \in Requests : c.op = "list_snapshots" /\ c.name = "vm1"})
    /\ UNCHANGED started

ListStep(p) ==
    \/ Connect(p) \/ GetDomain(p)
    \/ ListSnapshotNames(p) \/ ResolveSnapshot(p)
    \/ Finally(p)

SnapListNext == \E p \in Procs : BeginList(p) \/ ListStep(p) \/ Return(p)

SnapListSpec == SnapListInit /\ [][SnapListNext]_vars

\* The snapshot operations on vm1 in a sequential run.
SnapRequests ==
    {c \in Requests : /\ c.name = "vm1"
                      /\ c.op \in {"list_snapshots", "create_snapshot",
                                   "revert_snapshot", "delete_snapshot"}}

BeginSnap(p) ==
    /\ NoneInFlight
    /\ Call(p, SnapRequests)
    /\ UNCHANGED started

SnapStep(p) ==
    \/ Connect(p) \/ GetDomain(p)
    \/ ListSnapshotNames(p) \/ ResolveSnapshot(p) \/ CreateSnapshot(p)
    \/ SnapshotLookup(p) \/ RevertSnapshot(p) \/ DeleteSnapshot(p)
    \/ Finally(p)

SnapSeqNext == \E p \in Procs : BeginSnap(p) \/ SnapStep(p) \/ Return(p)

SnapSeqSpec == Init /\ [][SnapSeqNext]_vars

\* The fleet operations over a hypervisor whose domains stay as they are.
BeginFleet(p) ==
    /\ Call(p, {c \in Requests : c.op \in FleetOps})
    /\ UNCHANGED started

FleetStep(p) ==
    \/ Connect(p)
    \/ ListActiveIds(p) \/ DescribeById(p) \/ ListDefinedNames(p)
    \/ DescribeByName(p) \/ HostInfo(p) \/ FoldStats(p)
    \/ Finally(p)

FleetNext == \E p \in Procs : BeginFleet(p) \/ FleetStep(p) \/ Return(p)

FleetSpec == Init /\ [][FleetNext]_vars

\* The CPU percent formula on its own: any baseline (t0, ts0), any reading
\* (t1, now) and any vCPU count the live counter may report.
Readings == 0..MaxReading

Probes ==
    [cpu_time_0 : Readings, timestamp_0 : Readings, cpu_time_1 : Readings,
     timestamp_1 : Readings, vcpus : Readings, percent : {-1}]

ProbeInit ==
    InitWith({[v \in VMs |-> FALSE]}, [gaps |-> {1}, loads |-> {NsPerSec},
              faults |-> AllOrNone],
             Probes, {NoSnapshots})

\* The formula is applied to the sample pair.
TryFormula ==
    /\ probe.percent = -1
    /\ probe' = [probe EXCEPT !.percent =
                    CpuPercent(probe.cpu_time_0, probe.timestamp_0,
                               probe.cpu_time_1, probe.timestamp_1,
                               probe.vcpus)]
    /\ UNCHANGED <<hyper, clock, cpu_cache, openHandles, calls, started,
                   snapshots, config, lastCall, pace, lastSample>>

CpuSpec == ProbeInit /\ [][TryFormula]_vars

\* _vm_basic_info and the state of vm_metrics on their own: any state code
\* and live counters from dom.info(), any <vcpu> and <memory> (KiB) text in
\* the XML description.
NoDescriptor == [state |-> "", vcpus |-> -1, memory_mb |-> -1]

DomainReadings ==
    [info : [state_id : StateCodes, max_mem_kib : {1024, 1536},
             vcpus : {1, 2}],
     xml : [vcpu : {NoElement, 0, 2, 4},
            memory : {NoElement, 0, 1024, 2560}],
     descriptor : {NoDescriptor}, sample_state : {""}]

DescriptorInit ==
    InitWith({[v \in VMs |-> FALSE]}, [gaps |-> {1}, loads |-> {NsPerSec},
              faults |-> AllOrNone],
             DomainReadings, {NoSnapshots})

\* _vm_basic_info builds the descriptor of the domain.
DescribeDomain ==
    /\ probe.descriptor = NoDescriptor
    /\ probe' = [probe EXCEPT !.descriptor = BasicInfo(probe.info, probe.xml)]
    /\ UNCHANGED <<hyper, clock, cpu_cache, openHandles, calls, started,
                   snapshots, config, lastCall, pace, lastSample>>

\* vm_metrics: `"state": VM_STATE_MAP.get(state_id, "unknown")`.
SampleState ==
    /\ probe.sample_state = ""
    /\ probe' = [probe EXCEPT !.sample_state = StateLabel(probe.info.state_id)]
    /\ UNCHANGED <<hyper, clock, cpu_cache, openHandles, calls, started,
                   snapshots, config, lastCall, pace, lastSample>>

DescriptorSpec == DescriptorInit /\ [][DescribeDomain \/ SampleState]_vars

\* _format_version on its own: the small packed integers, and some around
\* the places where a part carries into the next.
Versions ==
    0..MaxVersion
       \cup {999999, 1000000, 1002003, 1999999, 9003000, 10012345}

VersionInit ==
    InitWith({[v \in VMs |-> FALSE]}, [gaps |-> {1}, loads |-> {NsPerSec},
              faults |-> AllOrNone],
             [version_int : Versions, parts : {<<>>}, version : {""}],
             {NoSnapshots})

\* The version is formatted.
Format ==
    /\ probe.version = ""
    /\ probe' = [probe EXCEPT !.parts = VersionParts(probe.version_int),
                              !.version = FormatVersion(probe.version_int)]
    /\ UNCHANGED <<hyper, clock, cpu_cache, openHandles, calls, started,
                   snapshots, config, lastCall, pace, lastSample>>

VersionSpec == VersionInit /\ [][Format]_vars

\* ================================================================ claims
ErrorKinds == {LibvirtConnectionError, VMNotFoundError, LibvirtError}

\* C1: every connection handle an operation opened is closed by the time the
\* operation has returned or raised, on every exit path of every operation,
\* global_stats with its nested list_vms included: the handles open on the
\* hypervisor are exactly those held by the calls still running, a call that
\* has returned or raised holds none, and so none is open once no call runs.
C1_HandlesClosed ==
    /\ \A p \in Procs : calls[p].held \in 0..2
    /\ openHandles =
          Cardinality({h \in Procs \X (1..2) : h[2] <= calls[h[1]].held})
    /\ \A p \in Procs : calls[p].pc \in {"idle", "done"} => calls[p].held = 0
    /\ (\A p \in Procs : calls[p].pc \in {"idle", "done"}) => openHandles = 0

\* global_stats opened two handles, its nested list_vms failed on the
\* hypervisor, and nothing is left open.
C1_Witness ==
    \E p \in Procs :
        /\ calls[p].pc = "done"
        /\ calls[p].op = "global_stats"
        /\ calls[p].opens = 2
        /\ calls[p].failedOpens = 0
        /\ calls[p].err = RawLibvirtError
        /\ openHandles = 0

\* C2: in a sequential run, stop_vm on an inactive domain returns
\* already_stopped and start_vm on an active domain returns already_running,
\* neither issuing a mutation; so a start_vm right after a start_vm that
\* returned started, and a stop_vm right after a forced stop_vm that returned
\* stopped, on the same domain, change nothing and issue nothing.
C2_AlreadyThere ==
    \A p \in Procs :
        LET c == calls[p] IN
        c.pc = "done" =>
            /\ (c.op = "stop_vm" /\ Exists(c.name) /\ ~c.entryActive) =>
                  /\ c.muts = <<>>
                  /\ ~domActive[c.name]
                  /\ c.err = NoError => c.status = "already_stopped"
            /\ (c.op = "start_vm" /\ c.sawActive) =>
                  /\ c.muts = <<>>
                  /\ c.err = NoError
                  /\ c.status = "already_running"
            /\ ( /\ c.op = "start_vm"
                 /\ lastCall.op = "start_vm"
                 /\ lastCall.name = c.name
                 /\ lastCall.status = "started" ) =>
                  /\ c.muts = <<>>
                  /\ domActive[c.name]
                  /\ c.err = NoError => c.status = "already_running"
            /\ ( /\ c.op = "stop_vm"
                 /\ lastCall.op = "stop_vm"
                 /\ lastCall.name = c.name
                 /\ lastCall.force
                 /\ lastCall.status = "stopped" ) =>
                  /\ c.muts = <<>>
                  /\ ~domActive[c.name]
                  /\ c.err = NoError => c.status = "already_stopped"

\* A forced stop that returned stopped was followed by a stop of the same
\* domain, which returned already_stopped.
C2_Witness ==
    \E p \in Procs :
        /\ calls[p].pc = "done"
        /\ calls[p].op = "stop_vm"
        /\ calls[p].status = "already_stopped"
        /\ lastCall.op = "stop_vm"
        /\ lastCall.name = calls[p].name
        /\ lastCall.force
        /\ lastCall.status = "stopped"

\* C3: an operation that takes a VM name, given a name the hypervisor does
\* not know, fails with VMNotFoundError once it holds its connection; it
\* never gets past the lookup and issues no mutation.
C3_UnknownName ==
    \A p \in Procs :
        LET c == calls[p] IN
        (c.op \in NamedOps /\ ~Exists(c.name)) =>
            /\ c.muts = <<>>
            /\ c.pc \in {"connect", "lookup", "finally", "done"}
            /\ (c.pc = "done" /\ c.failedOpens = 0) =>
                  /\ c.err = VMNotFoundError
                  /\ c.lookups = 1

\* delete_snapshot of an unknown domain has failed with VMNotFoundError.
C3_Witness ==
    \E p \in Procs :
        /\ calls[p].pc = "done"
        /\ calls[p].op = "delete_snapshot"
        /\ ~Exists(calls[p].name)
        /\ calls[p].err = VMNotFoundError
        /\ calls[p].muts = <<>>

\* C4: when opening the connection fails, the operation fails with
\* ConnectionError after exactly one open attempt, without any lookup,
\* enumeration or mutation (global_stats makes a second attempt for its
\* nested list_vms).
C4_OneOpenAttempt ==
    \A p \in Procs :
        LET c == calls[p] IN
        c.failedOpens >= 1 =>
            /\ c.err = LibvirtConnectionError
            /\ c.opens = 1
            /\ c.lookups = 0
            /\ c.muts = <<>>

\* C5: every failure of a hypervisor call that an operation lets out is a
\* LibvirtConnectionError, a VMNotFoundError or a LibvirtError.
C5_ThreeErrorKinds ==
    \A p \in Procs : calls[p].err \in ErrorKinds \cup {NoError}


\* C6: the CPU percentage (here in hundredths of a percent) lies in
\* [0, 100]: a negative delta gives 0, a delta above the capacity of the
\* interval gives 100, a non-positive interval gives 0, a vCPU count of 0
\* counts as 1, and in between the value is the quotient rounded to the
\* nearest hundredth.
C6_PercentInRange ==
    probe.percent # -1 =>
        LET dt == probe.timestamp_1 - probe.timestamp_0
            dc == probe.cpu_time_1 - probe.cpu_time_0
            n == IF probe.vcpus = 0 THEN 1 ELSE probe.vcpus
            cap == dt * n * NsPerSec
            off == probe.percent * cap - dc * 10000
        IN  /\ probe.percent \in 0..10000
            /\ dt <= 0 => probe.percent = 0
            /\ dc < 0 => probe.percent = 0
            /\ (dt > 0 /\ dc > cap) => probe.percent = 10000
            /\ (dt > 0 /\ dc >= 0 /\ dc <= cap) =>
                  /\ 2 * off <= cap
                  /\ 2 * off >= 0 - cap

\* With a vCPU count of 0, a delta above one CPU's capacity was clamped to 100.
C6_Witness ==
    /\ probe.vcpus = 0
    /\ probe.timestamp_1 > probe.timestamp_0
    /\ probe.cpu_time_1 - probe.cpu_time_0 >
          (probe.timestamp_1 - probe.timestamp_0) * NsPerSec
    /\ probe.percent = 10000

\* C7: a sample call that starts after the timestamp of the cache entry it
\* finds, and less than 5 seconds after it, computes over a strictly positive
\* interval; it never takes the zero-interval exit.
C7_PositiveInterval ==
    \A p \in Procs :
        LET c == calls[p] IN
        ( /\ c.op = "vm_metrics"
          /\ c.stored
          /\ c.prev # NoEntry
          /\ c.now > c.prev.timestamp
          /\ c.now - c.prev.timestamp < FreshSeconds ) =>
            /\ c.timestamp_1 - c.timestamp_0 > 0
            /\ c.pc = "done" => ~c.zeroDt

\* A second sample, 4 seconds after the stored timestamp, returned a
\* percentage above 0.
C7_Witness ==
    \E p \in Procs :
        /\ calls[p].pc = "done"
        /\ calls[p].op = "vm_metrics"
        /\ calls[p].stored
        /\ calls[p].prev # NoEntry
        /\ calls[p].now - calls[p].prev.timestamp = FreshSeconds - 1
        /\ ~calls[p].zeroDt
        /\ calls[p].cpu_percent > 0

\* C8: a sample call takes the cold path (its own first reading as
\* baseline, a sleep of a second, a second reading) exactly when the cache had
\* no entry for the domain or now - entry.timestamp >= 5; otherwise its
\* baseline is the cached entry and it does not sleep.
C8_ColdExactlyWhenStale ==
    \A p \in Procs :
        LET c == calls[p]
            stale == \/ c.prev = NoEntry
                     \/ c.now - c.prev.timestamp >= FreshSeconds
            cold == c.pc = "m_sleep" \/ c.slept
        IN  (c.op = "vm_metrics" /\ c.timestamp_0 # -1) =>
                /\ cold <=> stale
                /\ stale => c.timestamp_0 = c.now
                /\ ~stale => /\ c.cpu_time_0 = c.prev.cpu_time
                             /\ c.timestamp_0 = c.prev.timestamp
                             /\ ~c.slept
                /\ (c.slept /\ c.stored) =>
                      c.timestamp_1 - c.timestamp_0 >= SleepSeconds

\* A call found an entry exactly 5 seconds old and took the cold path.
C8_Witness ==
    \E p \in Procs :
        /\ calls[p].op = "vm_metrics"
        /\ calls[p].stored
        /\ calls[p].prev # NoEntry
        /\ calls[p].now - calls[p].prev.timestamp = FreshSeconds
        /\ calls[p].slept

\* C9: in a sequential run, a call about to write the cache measured an
\* interval that starts no earlier than the end of the previous measurement
\* of the domain; when it came less than 5 seconds after that end, its
\* baseline is exactly the entry the previous call left in the cache, which
\* is where that measurement ended.
C9_BaselineIsLastEntry ==
    \A p \in Procs :
        LET c == calls[p]
            last == lastSample[c.name]
        IN  (c.op = "vm_metrics" /\ c.pc = "m_put") =>
                /\ c.timestamp_0 >= last.timestamp
                /\ c.timestamp_1 >= c.timestamp_0
                /\ (last # NoEntry /\ c.now - last.timestamp < FreshSeconds) =>
                      /\ cpu_cache[c.name] = last
                      /\ c.cpu_time_0 = last.cpu_time
                      /\ c.timestamp_0 = last.timestamp

\* A call within 5 seconds of the previous one is about to write the cache,
\* its interval starting where the previous one ended.
C9_Witness ==
    \E p \in Procs :
        /\ calls[p].op = "vm_metrics"
        /\ calls[p].pc = "m_put"
        /\ lastSample[calls[p].name] # NoEntry
        /\ calls[p].now - lastSample[calls[p].name].timestamp < FreshSeconds
        /\ calls[p].timestamp_0 = lastSample[calls[p].name].timestamp
        /\ calls[p].timestamp_1 > calls[p].timestamp_0

\* C10: the read-modify-write of a domain's cache entry is atomic: from the
\* moment a call has read the entry until it writes the new one, the entry
\* is the one it read.
C10_AtomicUpdate ==
    \A p \in Procs :
        LET c == calls[p] IN
        ( /\ c.op = "vm_metrics"
          /\ c.pc \in {"m_info1", "m_sleep", "m_info2", "m_put"} ) =>
            cpu_cache[c.name] = c.prev

\* C11: in a sequential run, an update_resources that succeeds on a domain
\* active from its entry to its return answers restart_needed = true, and
\* one on a domain inactive throughout answers restart_needed = false,
\* whatever vcpus and memory_mb are.
C11_RestartNeeded ==
    \A p \in Procs :
        LET c == calls[p] IN
        ( /\ c.op = "update_resources"
          /\ c.pc \in {"finally", "done"}
          /\ c.status = "updated" ) =>
            /\ c.err = NoError
            /\ (c.entryActive /\ domActive[c.name]) => c.restart_needed
            /\ ~c.entryActive => ~c.restart_needed

\* update_resources(vm1, 4, 2048) succeeded on a running vm1 and answered
\* restart_needed = true.
C11_Witness ==
    \E p \in Procs :
        /\ calls[p].op = "update_resources"
        /\ calls[p].pc = "done"
        /\ calls[p].status = "updated"
        /\ calls[p].vcpus = 4
        /\ calls[p].memory_mb = 2048
        /\ calls[p].entryActive
        /\ domActive[calls[p].name]
        /\ calls[p].restart_needed

\* C12: an update_resources call chooses one scope from the domain's
\* activity (AFFECT_CONFIG when active, AFFECT_CURRENT when inactive); its
\* memory and vCPU mutations carry that scope, memory goes in KiB, and on an
\* active domain every mutation it issues is confined to the persistent
\* configuration.
C12_OneScope ==
    \A p \in Procs :
        LET c == calls[p]
            scope == IF c.sawActive THEN "AFFECT_CONFIG" ELSE "AFFECT_CURRENT"
        IN  c.op = "update_resources" =>
                /\ c.issued # <<>> => c.flags = scope
                /\ \A i \in 1..Len(c.issued) :
                      /\ c.issued[i].call \in {"setMemoryFlags",
                                               "setVcpusFlags"} =>
                            c.issued[i].flags = scope
                      /\ c.issued[i].call \in {"setMaxMemory",
                                               "setMemoryFlags"} =>
                            c.issued[i].arg = c.memory_mb * 1024
                      /\ c.sawActive => c.issued[i].flags = "AFFECT_CONFIG"

\* C13: a list_snapshots that returns gives one descriptor per snapshot
\* name the hypervisor enumerates, with the snapshot's creation time (0 when
\* its description has none), most recent first: each element's
\* creation_time is >= the next one's.
C13_NewestFirst ==
    \A p \in Procs :
        LET c == calls[p]
            have == snapshots[c.name]
        IN  (c.op = "list_snapshots" /\ c.status = "listed") =>
                /\ Len(c.snaps) = Len(have)
                /\ \A i \in 1..Len(have) :
                      \E j \in 1..Len(c.snaps) :
                          /\ c.snaps[j].name = have[i].name
                          /\ c.snaps[j].creation_time =
                                (IF have[i].creation_time = NoTime THEN 0
                                 ELSE have[i].creation_time)
                          /\ \A k \in 1..Len(c.snaps) :
                                c.snaps[k].name = have[i].name => k = j
                /\ \A j \in 1..(Len(c.snaps) - 1) :
                      c.snaps[j].creation_time >= c.snaps[j + 1].creation_time

\* Three snapshots enumerated oldest first (times 1 < 2 < 3) were returned
\* as [3, 2, 1].
C13_Witness ==
    \E p \in Procs :
        /\ calls[p].op = "list_snapshots"
        /\ calls[p].pc = "done"
        /\ calls[p].status = "listed"
        /\ Len(snapshots["vm1"]) = 3
        /\ \A i \in 1..3 : snapshots["vm1"][i].creation_time = i
        /\ Len(calls[p].snaps) = 3
        /\ \A i \in 1..3 : calls[p].snaps[i].creation_time = 4 - i

\* The sum of the counts of a state distribution.
RECURSIVE SumOfCounts(_)
SumOfCounts(dist) ==
    IF DOMAIN dist = {} THEN 0
    ELSE LET st == CHOOSE x \in DOMAIN dist : TRUE
         IN  dist[st] + SumOfCounts([y \in DOMAIN dist \ {st} |-> dist[y]])

\* C14: a global_stats that returns has vms_total = vms_active +
\* vms_inactive = the number of descriptors listed = the sum of its state
\* distribution, also when domains were skipped; when every domain could be
\* read, over a hypervisor with a active and i inactive domains it returns
\* vms_total = a + i, vms_active = a and vms_inactive = i.
C14_FleetCounts ==
    \A p \in Procs :
        LET c == calls[p]
            a == Cardinality({v \in VMs : domActive[v]})
            i == Cardinality({v \in VMs : ~domActive[v]})
        IN  (c.op = "global_stats" /\ c.status = "stats") =>
                /\ c.stats.vms_total = c.stats.vms_active
                                           + c.stats.vms_inactive
                /\ c.stats.vms_total = Len(c.vms)
                /\ c.stats.vms_total = SumOfCounts(c.stats.state_distribution)
                /\ c.stats.vms_active >= 0
                /\ c.stats.vms_inactive >= 0
                /\ c.skipped = 0 =>
                      /\ c.stats.vms_total = a + i
                      /\ c.stats.vms_active = a
                      /\ c.stats.vms_inactive = i

\* With one domain running and one stopped, both read, global_stats
\* returned a total of 2, 1 active and 1 inactive.
C14_Witness ==
    \E p \in Procs :
        /\ calls[p].op = "global_stats"
        /\ calls[p].pc = "done"
        /\ calls[p].status = "stats"
        /\ domActive["vm1"] /\ ~domActive["vm2"]
        /\ calls[p].skipped = 0
        /\ calls[p].stats.vms_total = 2
        /\ calls[p].stats.vms_active = 1
        /\ calls[p].stats.vms_inactive = 1
        /\ SumOfCounts(calls[p].stats.state_distribution) = 2

\* C15: stop_vm on a domain it finds active issues exactly one mutation, a
\* shutdown request when force is false and a destroy when force is true;
\* when the mutation succeeds the status is stopped, when it fails the
\* operation raises LibvirtError.
C15_OneStopMutation ==
    \A p \in Procs :
        LET c == calls[p] IN
        (c.op = "stop_vm" /\ c.sawActive) =>
            /\ c.pc \in {"destroy", "shutdown"} =>
                  /\ c.muts = <<>>
                  /\ c.pc = "destroy" <=> c.force
            /\ c.pc \in {"finally", "done"} =>
                  /\ c.muts = <<IF c.force THEN "destroy" ELSE "shutdown">>
                  /\ c.err = NoError => c.status = "stopped"
                  /\ c.err # NoError =>
                        c.err = LibvirtError /\ c.status = ""

\* A graceful stop of a running domain issued one shutdown request and
\* returned stopped; the domain is still running.
C15_Witness ==
    \E p \in Procs :
        /\ calls[p].op = "stop_vm"
        /\ calls[p].pc = "done"
        /\ ~calls[p].force
        /\ calls[p].muts = <<"shutdown">>
        /\ calls[p].status = "stopped"
        /\ domActive[calls[p].name]

\* C16, as stated: the statuses restart_vm returns on an active domain are
\* restarted and restarted_hard.
C16_TwoStatuses ==
    \A p \in Procs :
        LET c == calls[p] IN
        ( /\ c.op = "restart_vm"
          /\ c.sawActive
          /\ c.pc = "done"
          /\ c.err = NoError ) =>
            c.status \in {"restarted", "restarted_hard"}

\* C16, amended: restart_vm on a domain it finds active issues, with force
\* false, exactly a reboot and returns restarted; with force true a reset,
\* returning reset when it succeeds, and only when the reset failed a destroy
\* followed by a create, returning restarted_hard. The statuses it can return
\* are restarted, reset and restarted_hard.
C16_RestartActive ==
    \A p \in Procs :
        LET c == calls[p] IN
        ( /\ c.op = "restart_vm"
          /\ c.sawActive
          /\ c.pc \in {"finally", "done"} ) =>
            /\ ~c.force =>
                  /\ c.muts = <<"reboot">>
                  /\ c.err = NoError => c.status = "restarted"
            /\ c.force =>
                  /\ c.muts \in {<<"reset">>, <<"reset", "destroy">>,
                                 <<"reset", "destroy", "create">>}
                  /\ c.muts = <<"reset">> =>
                        c.err = NoError /\ c.status = "reset"
                  /\ c.muts = <<"reset", "destroy">> => c.err = LibvirtError
                  /\ (c.err = NoError /\ Len(c.muts) = 3) =>
                        c.status = "restarted_hard"
            /\ c.err # NoError => c.err = LibvirtError /\ c.status = ""
            /\ c.err = NoError =>
                  c.status \in {"restarted", "reset", "restarted_hard"}

\* A forced restart whose reset failed went on to destroy and create and
\* returned restarted_hard.
C16_Witness ==
    \E p \in Procs :
        /\ calls[p].op = "restart_vm"
        /\ calls[p].pc = "done"
        /\ calls[p].force
        /\ calls[p].muts = <<"reset", "destroy", "create">>
        /\ calls[p].status = "restarted_hard"
        /\ domActive[calls[p].name]

\* C17: in a sequential run, restart_vm on an inactive domain does, for
\* either value of force, what start_vm does on it: it issues at most one
\* mutation, a create, and when that succeeds returns started with the
\* domain active.
C17_RestartAsStart ==
    \A p \in Procs :
        LET c == calls[p] IN
        ( /\ c.op \in {"restart_vm", "start_vm"}
          /\ Exists(c.name)
          /\ ~c.entryActive
          /\ c.pc = "done" ) =>
            /\ c.muts \in {<<>>, <<"create">>}
            /\ c.err = NoError =>
                  /\ c.muts = <<"create">>
                  /\ c.status = "started"
                  /\ domActive[c.name]
            /\ (c.err = NoError \/ c.muts # <<>>) => ~c.sawActive

\* A forced restart of a stopped domain issued one create and returned
\* started.
C17_Witness ==
    \E p \in Procs :
        /\ calls[p].op = "restart_vm"
        /\ calls[p].pc = "done"
        /\ calls[p].force
        /\ ~calls[p].entryActive
        /\ calls[p].muts = <<"create">>
        /\ calls[p].status = "started"
        /\ domActive[calls[p].name]

\* C18: the lookup of a domain reports VMNotFoundError only when the
\* hypervisor has no domain of that name; a lookup that fails for another
\* reason is reported as another kind of error.
C18_NotFoundOnlyWhenAbsent ==
    \A p \in Procs :
        calls[p].err = VMNotFoundError => ~Exists(calls[p].name)

\* C19: in a sequential run, revert_snapshot and delete_snapshot on an
\* existing domain, for a snapshot name the domain does not have, fail with
\* VMNotFoundError and change neither the domain nor its snapshots.
C19_SnapshotNotFound ==
    \A p \in Procs :
        LET c == calls[p] IN
        ( /\ c.op \in {"revert_snapshot", "delete_snapshot"}
          /\ Exists(c.name)
          /\ c.pc = "done"
          /\ c.failedOpens = 0
          /\ c.muts = <<>>
          /\ ~HasSnapshot(c.name, c.snap) ) =>
            c.err = VMNotFoundError

\* C20: in a sequential run, vm_metrics on an existing domain that is not
\* active neither sleeps nor reads a counter nor looks at the clock, and
\* when it returns, it returns the zeroed sample flagged stopped.
C20_StoppedSample ==
    \A p \in Procs :
        LET c == calls[p] IN
        (c.op = "vm_metrics" /\ Exists(c.name) /\ ~c.entryActive) =>
            /\ c.reads = 0
            /\ ~c.slept
            /\ c.now = -1
            /\ ~c.stored
            /\ (c.pc = "done" /\ c.err = NoError) =>
                  /\ c.status = "stopped"
                  /\ c.sample = StoppedSample
                  /\ c.cpu_percent = 0

\* vm_metrics of the stopped vm1 returned the zeroed sample.
C20_Witness ==
    \E p \in Procs :
        /\ calls[p].op = "vm_metrics"
        /\ calls[p].pc = "done"
        /\ calls[p].name = "vm1"
        /\ ~calls[p].entryActive
        /\ calls[p].err = NoError
        /\ calls[p].sample = StoppedSample
        /\ calls[p].reads = 0

\* The names of the descriptors of a listing, in order.
ListedNames(vms) == [i \in 1..Len(vms) |-> vms[i].name]

\* A listing is complete but for the domains that failed.
AllButOmitted(c) ==
    ListedNames(c.vms) =
       SelectSeq(c.enumerated,
                 LAMBDA v : \A i \in 1..Len(c.omitted) : c.omitted[i] # v)

\* C21: in list_vms (on its own or inside global_stats), the failure of the
\* lookup or the description of one domain of either enumeration raises
\* nothing and leaves out that domain only: a turn of either loop goes on to
\* the rest of the enumeration without an error, and the listing returned
\* holds, in the order enumerated, a descriptor for every enumerated domain
\* but the failed ones.
C21_OnlyFailedOmitted ==
    /\ [](\A p \in Procs :
            (calls[p].op \in FleetOps
             /\ calls[p].status \in {"listed", "stats"})
               => calls[p].err = NoError /\ AllButOmitted(calls[p]))
    /\ [][\A p \in Procs :
            (/\ calls[p].fn = "list_vms"
             /\ calls[p].pc \in {"lv_byid", "lv_byname"}
             /\ calls[p].todo # <<>>
             /\ calls'[p] # calls[p])
               => /\ calls'[p].err = NoError
                  /\ calls'[p].pc = calls[p].pc
                  /\ calls'[p].todo = Tail(calls[p].todo)]_vars

\* A listing returned one descriptor after the other domain had failed.
C21_Witness ==
    \E p \in Procs :
       /\ calls[p].op = "list_vms"
       /\ calls[p].pc = "done"
       /\ calls[p].status = "listed"
       /\ Len(calls[p].omitted) = 1
       /\ Len(calls[p].vms) = 1
       /\ Len(calls[p].enumerated) = 2

\* C22: in vm_metrics on an active domain, failing to read the statistics
\* of a disk or of a network interface leaves out that device only: the
\* sample is returned without an error and holds one entry for every other
\* disk target and every other interface of the configuration, in the
\* order of the configuration.
C22_OnlyUnreadOmitted ==
    \A p \in Procs :
       LET c == calls[p] IN
       (c.op = "vm_metrics" /\ c.pc = "done" /\ c.err = NoError
        /\ c.sawActive)
          => /\ c.sample # NoSample
             /\ c.sample.disk_io =
                   SelectSeq(DiskTargets, LAMBDA d : d \notin c.unread)
             /\ c.sample.network_io =
                   SelectSeq(NetworkInterfaces, LAMBDA d : d \notin c.unread)

\* A sample was returned after the first disk and the first interface
\* could not be read: it holds the second disk and the second interface.
C22_Witness ==
    \E p \in Procs :
       /\ calls[p].op = "vm_metrics"
       /\ calls[p].pc = "done"
       /\ calls[p].err = NoError
       /\ calls[p].unread = {"vda", "vnet0"}
       /\ calls[p].sample.disk_io = <<"vdb">>
       /\ calls[p].sample.network_io = <<"vnet1">>

\* C23: the state projection is total. Each of the eight codes libvirt
\* names gets its label (no_state, running, blocked, paused, shutdown,
\* stopped, crashed, suspended), every other code gets "unknown", and the
\* projection yields a label for every code, in the descriptor and in the
\* metrics sample alike.
C23_StateProjection ==
    LET code == probe.info.state_id
        label ==
           CASE code = "VIR_DOMAIN_NOSTATE" -> "no_state"
             [] code = "VIR_DOMAIN_RUNNING" -> "running"
             [] code = "VIR_DOMAIN_BLOCKED" -> "blocked"
             [] code = "VIR_DOMAIN_PAUSED" -> "paused"
             [] code = "VIR_DOMAIN_SHUTDOWN" -> "shutdown"
             [] code = "VIR_DOMAIN_SHUTOFF" -> "stopped"
             [] code = "VIR_DOMAIN_CRASHED" -> "crashed"
             [] code = "VIR_DOMAIN_PMSUSPENDED" -> "suspended"
             [] OTHER -> "unknown"
    IN  /\ probe.descriptor # NoDescriptor => probe.descriptor.state = label
        /\ probe.sample_state # "" => probe.sample_state = label

\* A code libvirt does not name was projected to "unknown" in both the
\* descriptor and the sample.
C23_Witness ==
    /\ probe.info.state_id = "8"
    /\ probe.descriptor # NoDescriptor
    /\ probe.descriptor.state = "unknown"
    /\ probe.sample_state = "unknown"

\* C25: in a descriptor, vcpus is the <vcpu> of the configuration whenever
\* that is present and not zero, whatever the live counter says, and the
\* live counter exactly when it is absent or zero; memory_mb likewise is
\* the <memory> of the configuration, or else the live maximum, in MiB.
C25_ConfigurationFirst ==
    LET d == probe.descriptor
        x == probe.xml
        i == probe.info
        Mib(kib) == RoundHalfEven(kib, 1024)
    IN  d # NoDescriptor =>
          /\ (x.vcpu \notin {NoElement, 0}) => d.vcpus = x.vcpu
          /\ (x.vcpu \in {NoElement, 0}) => d.vcpus = i.vcpus
          /\ (x.memory \notin {NoElement, 0}) => d.memory_mb = Mib(x.memory)
          /\ (x.memory \in {NoElement, 0}) => d.memory_mb = Mib(i.max_mem_kib)

\* A descriptor took its vcpus from a configuration that differs from the
\* live counter, and its memory from the live counter for want of a
\* <memory> element.
C25_Witness ==
    /\ probe.descriptor # NoDescriptor
    /\ probe.xml.vcpu = 4
    /\ probe.info.vcpus = 2
    /\ probe.descriptor.vcpus = 4
    /\ probe.xml.memory = NoElement
    /\ probe.info.max_mem_kib = 1536
    /\ probe.descriptor.memory_mb = 2

\* C24: a packed version integer v >= 0 is formatted as major.minor.patch
\* with major = v div 1000000, minor = (v mod 1000000) div 1000 and
\* patch = v mod 1000: the parts put together again give v, minor and
\* patch are below 1000, 9003000 is "9.3.0" and 1002003 is "1.2.3".
C24_VersionParts ==
    LET v == probe.version_int
        t == probe.parts
    IN  probe.version # "" =>
          /\ t.major = v \div 1000000
          /\ t.minor = (v % 1000000) \div 1000
          /\ t.patch = v % 1000
          /\ t.major * 1000000 + t.minor * 1000 + t.patch = v
          /\ t.minor \in 0..999 /\ t.patch \in 0..999 /\ t.major >= 0
          /\ probe.version = ToString(t.major) \o "." \o ToString(t.minor)
                                \o "." \o ToString(t.patch)
          /\ v = 9003000 => probe.version = "9.3.0"
          /\ v = 1002003 => probe.version = "1.2.3"
          /\ v = 0 => probe.version = "0.0.0"
          /\ v = 1000 => probe.version = "0.1.0"

\* 9003000 was formatted as 9.3.0.
C24_Witness ==
    /\ probe.version_int = 9003000
    /\ probe.version = "9.3.0"

\* C26 as stated: every metrics request that returns a sample has stored a
\* cache entry for its domain (the request for an inactive domain returns
\* the stopped sample and stores nothing).
C26_EverySampleStores ==
    \A p \in Procs :
       LET c == calls[p] IN
       (c.op = "vm_metrics" /\ c.pc = "done" /\ c.err = NoError)
          => c.stored /\ cpu_cache[c.name] # NoEntry

\* C26, amended: every metrics request that finds its domain active and
\* returns a sample has stored a cache entry for the domain: the step that
\* stores writes that request's final (cpu_time, timestamp) reading over
\* whatever was there, on the cached and on the cold path and also when
\* dt <= 0. A request that finds the domain inactive returns the stopped
\* sample and stores nothing. No step ever removes an entry.
C26_ActiveSampleStores ==
    /\ [](\A p \in Procs :
            LET c == calls[p] IN
            (c.op = "vm_metrics" /\ c.pc = "done" /\ c.err = NoError)
               => /\ c.stored = c.sawActive
                  /\ c.stored => cpu_cache[c.name] # NoEntry)
    /\ [][/\ \A p \in Procs :
              (~calls[p].stored /\ calls'[p].stored)
                 => cpu_cache'[calls[p].name] =
                       [cpu_time |-> calls[p].cpu_time_1,
                        timestamp |-> calls[p].timestamp_1]
          /\ \A n \in Names :
                cpu_cache[n] # NoEntry => cpu_cache'[n] # NoEntry]_vars

\* A request on the cached path found dt <= 0, reported 0 and returned,
\* having stored its reading over the entry that was there.
C26_Witness ==
    \E p \in Procs :
       /\ calls[p].op = "vm_metrics"
       /\ calls[p].pc = "done"
       /\ calls[p].err = NoError
       /\ calls[p].prev # NoEntry
       /\ ~calls[p].slept
       /\ calls[p].zeroDt
       /\ calls[p].stored
       /\ cpu_cache[calls[p].name] # NoEntry

\* C27: a public operation fetches and parses the configuration of a
\* domain at most once, so that everything its result derives from the
\* configuration comes from one version of it, whatever update_resources
\* does meanwhile (vm_details parses it three times).
C27_ParsedOnce ==
    \A p \in Procs :
       LET c == calls[p] IN
       \A i, j \in 1..Len(c.parsed) :
          c.parsed[i][1] = c.parsed[j][1] => i = j

\* C28: an operation opens one connection handle of its own and closes it:
\* it never holds more than one at a time, it has opened exactly one when
\* it returns, and every handle open on the hypervisor is held by one call
\* only (global_stats holds its own and that of its nested list_vms).
C28_OneHandle ==
    /\ \A p \in Procs :
          /\ calls[p].held <= 1
          /\ (calls[p].pc = "done" /\ calls[p].failedOpens = 0)
                => calls[p].opens = 1 /\ calls[p].held = 0
    /\ openHandles = Cardinality({p \in Procs : calls[p].held = 1})

\* C29: in every update_resources call that succeeds, whatever start_vm or
\* stop_vm does to the domain meanwhile, restart_needed is true exactly
\* when the call issued its mutations with the persistent-configuration
\* scope and false exactly when it issued them with the current scope.
C29_RestartMatchesScope ==
    \A p \in Procs :
       LET c == calls[p] IN
       (c.op = "update_resources" /\ c.status = "updated")
          => (c.restart_needed <=> c.flags = "AFFECT_CONFIG")

\* C30: a listing list_vms returns holds at most one descriptor per domain
\* and one for every domain that could be read, even when a domain starts
\* or stops between the enumeration of the running domains and that of
\* the defined ones (every domain of the model exists throughout).
C30_EachDomainOnce ==
    \A p \in Procs :
       LET c == calls[p] IN
       (c.op = "list_vms" /\ c.status = "listed")
          => /\ \A i, j \in 1..Len(c.vms) :
                   c.vms[i].name = c.vms[j].name => i = j
             /\ \A v \in VMs :
                   (\A i \in 1..Len(c.omitted) : c.omitted[i] # v)
                      => \E i \in 1..Len(c.vms) : c.vms[i].name = v

\* C31: of concurrent start_vm calls on an inactive domain only one issues
\* create, the others finding the domain running: no start_vm issues
\* create on a domain that is already active. Likewise no forced stop_vm
\* issues destroy on a domain that is already inactive.
C31_NoRepeatedMutation ==
    \A p \in Procs :
       LET c == calls[p] IN
       \A i \in 1..Len(c.muts) :
          /\ (c.op = "start_vm" /\ c.muts[i] = "create") => ~c.issuedOn[i]
          /\ (c.op = "stop_vm" /\ c.muts[i] = "destroy") => c.issuedOn[i]

\* C32: in a sequential run, an update_resources that raises leaves the
\* configuration of the domain as it was when the call began: memory
\* ceiling, memory allocation and vCPU count change all together or not
\* at all.
C32_AllOrNothing ==
    \A p \in Procs :
       LET c == calls[p] IN
       (c.op = "update_resources" /\ Exists(c.name) /\ c.pc = "done"
        /\ c.err # NoError)
          => config[c.name] = c.entryConfig

\* C33: in a sequential run, a restart_vm that raises leaves the domain as
\* active or inactive as it was when the call began; in particular a
\* domain that was running when a forced restart began still runs after
\* the call failed, also when reset failed and the fallback failed at
\* create.
C33_FailedRestartKeepsActivity ==
    \A p \in Procs :
       LET c == calls[p] IN
       (c.op = "restart_vm" /\ Exists(c.name) /\ c.pc = "done"
        /\ c.err # NoError)
          => domActive[c.name] = c.entryActive

====
